---- MODULE Spec2Model ----
(***************************************************************************)
(* A model of the search backend of survey_accelerator:                    *)
(*   - the highlight render cache (app/search/pdf_highlight_utils.py),     *)
(*   - the relevance scorer and ranker (app/search/openai_utils.py),       *)
(*   - the keyphrase extractor (app/search/openai_utils.py),               *)
(*   - candidate merging, grouping and document ordering                   *)
(*     (app/search/utils.py), fed by the ingestion of app/ingestion,       *)
(*   - the request handler search_generic (app/search/routers.py).         *)
(* Each subsystem has its own specification over the shared variables;    *)
(* the variables of the other subsystems stay at their initial value.      *)
(***************************************************************************)
EXTENDS Integers, Sequences, FiniteSets, TLC

VARIABLES
    \* ---- highlight render cache ----
    files,            \* cache path -> the file there (its highlights), or NoFile
    processing_pdfs,  \* the in-flight registry: cache key -> task id, 0 = no entry
    task,             \* render tasks (_process_and_highlight_pdf), by id
    call,             \* get_highlighted_pdf calls, by id
    temp_files,       \* ids of the tasks whose temporary download file exists
    \* ---- rank_search_results ----
    document_chunks,  \* the candidates handed to rank_search_results
    request,          \* per candidate: "pending", "in_flight" or "done"
    oracle_reply,     \* per candidate: what the scoring oracle answered
    analysis,         \* per candidate: the doc_info of analyze_single_document
    ranked_results,   \* the list rank_search_results returns
    rank_pc,          \* "scoring" or "returned"
    \* ---- ingestion and hybrid_search ----
    documents_table,  \* the rows of the documents table, in id order
    semantic_results, \* the rows perform_semantic_search returned
    keyword_results,  \* the rows perform_keyword_search returned
    combined_results, \* the values of the OrderedDict, in insertion order
    matches,          \* the reranked matches
    final_results,    \* the list hybrid_search returns
    search_outcome,   \* "none", "returned" or "raised"
    rerank,           \* co.rerank in this call: "not_called", "answered", "raised"
    \* ---- extract_highlight_keyphrase ----
    query,            \* the search query
    page_text,        \* the text of the page the chunk was built from
    chunk_content,    \* the chunk handed to the function
    keyphrase_reply,  \* what the keyphrase oracle answered
    keyphrase,        \* the returned string, and the return statement taken
    keyphrase_pc,     \* "idle", "awaiting" or "returned"
    \* ---- search_generic ----
    search_request,   \* the request: is its query blank
    retrieval,        \* "none", "ok", or the retrieval call that raised
    merged_hits,      \* the merged candidates and what the oracles answer for each
    hybrid_results,   \* results: the list hybrid_search returned to search_generic
    result_index,     \* position of the loop over results
    generic_results,  \* the list search_generic builds
    highlight_calls,  \* the get_highlighted_pdf calls made, with their outcome
    oracle_calls,     \* number of scoring, explanation and keyphrase calls made
    generic_response, \* the response, or the error raised to the client
    generic_pc        \* "idle", "searching", "highlighting", "returned", "raised"

hvars == <<files, processing_pdfs, task, call, temp_files>>

rvars == <<document_chunks, request, oracle_reply, analysis, ranked_results, rank_pc>>

svars == <<documents_table, semantic_results, keyword_results,
           combined_results, matches, final_results, search_outcome, rerank>>

kvars == <<query, page_text, chunk_content, keyphrase_reply, keyphrase, keyphrase_pc>>

gvars == <<search_request, retrieval, merged_hits, hybrid_results, result_index,
           generic_results, highlight_calls, oracle_calls, generic_response,
           generic_pc>>

vars == <<hvars, rvars, svars, kvars, gvars>>

\* What the actions of one subsystem leave alone.
outside_highlight == <<rvars, svars, kvars, gvars>>

outside_rank == <<hvars, svars, kvars, gvars>>

outside_search == <<hvars, rvars, kvars, gvars>>

outside_keyphrase == <<hvars, rvars, svars, gvars>>

outside_generic == <<hvars, rvars, svars, kvars>>

(***************************************************************************)
(* Highlight render cache                                                  *)
(***************************************************************************)

\* Number of get_highlighted_pdf calls of one run.
MaxCalls == 3

Calls == 1..MaxCalls

NoFile == [exists |-> FALSE, highlights |-> {}]

\* The documents behind the URLs: per page, the words search_for finds there.
PdfUrls == {"doc1"}

PdfDoc(url) == << {"health", "rate"}, {"rate"} >>

\* A search term is the sequence of its pieces: words, "," and " ".
TermFound == <<"health">>

\* 'zzz, h': "zzz" occurs nowhere in the document, "h" is shorter than two
\* characters.
TermAbsent == <<"zzz", ",", " ", "h">>

\* 'rate, health'
TermList == <<"rate", ",", " ", "health">>

EmptyMap == <<>>

\* Per-page keyword maps, page number -> keywords: one with an occurrence, one
\* without (page 9 is out of bounds).
MapFound == [p \in {1} |-> <<"health", "h">>]

MapAbsent == [p \in {2, 9} |-> IF p = 2 THEN <<"zzz">> ELSE <<"health">>]

Request(url, term, map) ==
    [pdf_url |-> url, search_term |-> term, page_keywords |-> map]

Requests ==
    { Request(u, TermFound, EmptyMap) : u \in PdfUrls }
    \cup { Request(u, TermAbsent, EmptyMap) : u \in PdfUrls }
    \cup { Request(u, TermFound, MapFound) : u \in PdfUrls }
    \cup { Request(u, TermAbsent, MapAbsent) : u \in PdfUrls }

\* Requests that differ in the search term alone, with and without a map.
KeyRequests ==
    { Request(u, t, m) : u \in PdfUrls, t \in {TermFound, TermList},
                         m \in {EmptyMap, MapFound} }
    \cup { Request(u, TermList, MapAbsent) : u \in PdfUrls }

\* A variant whose key holds the search term with the map.
cache_key_with_term(req) ==
    IF DOMAIN req.page_keywords # {}
    THEN [url |-> req.pdf_url, paged |-> TRUE,
          keywords |-> req.page_keywords, term |-> req.search_term]
    ELSE [url |-> req.pdf_url, paged |-> FALSE,
          keywords |-> <<>>, term |-> req.search_term]

\* cache_key: the URL with the per-page map when the map is non-empty, the URL
\* with the search term otherwise. The md5 digests are taken to be injective.
cache_key(req) ==
    IF DOMAIN req.page_keywords # {}
    THEN [url |-> req.pdf_url, paged |-> TRUE,
          keywords |-> req.page_keywords, term |-> <<>>]
    ELSE [url |-> req.pdf_url, paged |-> FALSE,
          keywords |-> EmptyMap, term |-> req.search_term]

CacheKeys == { cache_key(r) : r \in Requests \cup KeyRequests }

\* The URL a caller gets: /highlighted_pdfs/<md5 of the key>.pdf
HighlightedUrl(key) == [highlighted_pdf |-> key]

Range(s) == { s[i] : i \in DOMAIN s }

\* _add_page_specific_highlights: the highlights added, page by page of the map.
PageSpecificHighlights(doc, page_keywords) ==
    { <<p, kw>> \in (DOMAIN page_keywords) \X UNION { Range(page_keywords[q]) : q \in DOMAIN page_keywords } :
        /\ p - 1 >= 0 /\ p - 1 < Len(doc)
        /\ kw \in Range(page_keywords[p])
        /\ Len(kw) >= 2
        /\ kw \in doc[p] }

RECURSIVE Text(_)
\* The string of a sequence of pieces.
Text(pieces) == IF pieces = <<>> THEN "" ELSE Head(pieces) \o Text(Tail(pieces))

RECURSIVE SplitOnComma(_)
\* search_terms.split(",")
SplitOnComma(pieces) ==
    LET commas == { i \in DOMAIN pieces : pieces[i] = "," }
        at == CHOOSE i \in commas : \A j \in commas : i <= j
    IN  IF commas = {} THEN <<pieces>>
        ELSE <<SubSeq(pieces, 1, at - 1)>>
                 \o SplitOnComma(SubSeq(pieces, at + 1, Len(pieces)))

RECURSIVE StripSpaces(_)
\* term.strip()
StripSpaces(pieces) ==
    IF pieces # <<>> /\ Head(pieces) = " " THEN StripSpaces(Tail(pieces))
    ELSE IF pieces # <<>> /\ pieces[Len(pieces)] = " "
         THEN StripSpaces(SubSeq(pieces, 1, Len(pieces) - 1))
    ELSE pieces

\* Lines 258-268: the stripped parts of a term that holds a comma; any
\* other term as it is, as the only element.
terms_list(search_terms) ==
    LET parts == SplitOnComma(search_terms)
    IN  IF "," \in Range(search_terms)
        THEN [i \in DOMAIN parts |-> Text(StripSpaces(parts[i]))]
        ELSE <<Text(search_terms)>>

\* _add_highlights: every term of the list on every page of the document.
AllPagesHighlights(doc, terms) ==
    { <<p, t>> \in (DOMAIN doc) \X Range(terms) :
        /\ Len(t) >= 2
        /\ t \in doc[p] }

\* The highlights of the render of a request (lines 139-148).
RenderHighlights(req) ==
    IF DOMAIN req.page_keywords # {} /\ Cardinality(DOMAIN req.page_keywords) > 0
    THEN PageSpecificHighlights(PdfDoc(req.pdf_url), req.page_keywords)
    ELSE AllPagesHighlights(PdfDoc(req.pdf_url), terms_list(req.search_term))

SavedOnlyIfHighlighted(req) ==
    IF RenderHighlights(req) # {}
    THEN [exists |-> TRUE, highlights |-> RenderHighlights(req)]
    ELSE NoFile

\* doc.save(output_path): both branches of "if highlights_added" save the file.
SavedFile(req) == [exists |-> TRUE, highlights |-> RenderHighlights(req)]

IdleCall == [pc |-> "idle", req |-> CHOOSE r \in Requests : TRUE,
             waited |-> 0, own |-> 0]

NoTask == [state |-> "none"]

HInit ==
    /\ files = [k \in CacheKeys |-> NoFile]
    /\ processing_pdfs = [k \in CacheKeys |-> 0]
    /\ task = [t \in Calls |-> NoTask]
    /\ call = [c \in Calls |-> IdleCall]
    /\ temp_files = {}

Done(t) == task[t].state \in {"done", "failed"}

KeyOf(c) == cache_key(call[c].req)

\* asyncio.create_task(_process_and_highlight_pdf(...)) and its registration
\* (lines 82-87); the task of call c has id c.
StartRender(c, req) ==
    /\ task' = [task EXCEPT ![c] = [state |-> "created"]]
    /\ processing_pdfs' = [processing_pdfs EXCEPT ![cache_key(req)] = c]

\* A variant that never finds the file.
PathNeverExists(key) == FALSE

\* os.path.exists(highlighted_path) (line 63).
PathExists(key) == files[key].exists

\* get_highlighted_pdf up to its first suspension (lines 50-87). Calls are
\* numbered in their order of arrival.
GetHighlightedPdf(c, req) ==
    /\ call[c].pc = "idle"
    /\ \A d \in Calls : d < c => call[d].pc # "idle"
    /\ LET key == cache_key(req) IN
       IF PathExists(key)
       THEN /\ call' = [call EXCEPT ![c] = [pc |-> "returned", req |-> req,
                                            waited |-> 0, own |-> 0]]
            /\ UNCHANGED <<task, processing_pdfs>>
       ELSE IF processing_pdfs[key] # 0 /\ ~Done(processing_pdfs[key])
       THEN /\ call' = [call EXCEPT ![c] = [pc |-> "waiting", req |-> req,
                                            waited |-> processing_pdfs[key], own |-> 0]]
            /\ UNCHANGED <<task, processing_pdfs>>
       ELSE /\ call' = [call EXCEPT ![c] = [pc |-> "rendering", req |-> req,
                                            waited |-> 0, own |-> c]]
            /\ StartRender(c, req)
    /\ UNCHANGED <<files, temp_files>>
    /\ UNCHANGED outside_highlight

\* A variant in which the failure of the awaited render is raised to the
\* waiting caller.
ResumeAfterWaitPropagates(c) ==
    /\ call[c].pc = "waiting"
    /\ Done(call[c].waited)
    /\ IF task[call[c].waited].state = "failed"
       THEN /\ call' = [call EXCEPT ![c].pc = "raised"]
            /\ UNCHANGED <<task, processing_pdfs>>
       ELSE /\ call' = [call EXCEPT ![c].pc = "rendering", ![c].own = c]
            /\ StartRender(c, call[c].req)
    /\ UNCHANGED <<files, temp_files>>
    /\ UNCHANGED outside_highlight

\* The caller that awaited an in-flight render resumes (lines 75-87): the
\* exception of a failed render is logged, and in both cases control reaches
\* "Start processing the PDF".
ResumeAfterWait(c) ==
    /\ call[c].pc = "waiting"
    /\ Done(call[c].waited)
    /\ call' = [call EXCEPT ![c].pc = "rendering", ![c].own = c]
    /\ StartRender(c, call[c].req)
    /\ UNCHANGED <<files, temp_files>>
    /\ UNCHANGED outside_highlight

\* The task starts: the temporary file is created and the download begins
\* (lines 121-128).
TaskStart(t) ==
    /\ task[t].state = "created"
    /\ task' = [task EXCEPT ![t].state = "downloading"]
    /\ temp_files' = temp_files \cup {t}
    /\ UNCHANGED <<files, processing_pdfs, call>>
    /\ UNCHANGED outside_highlight

\* A variant without the finally block.
TaskDownloadFailsNoCleanup(t) ==
    /\ task[t].state = "downloading"
    /\ task' = [task EXCEPT ![t].state = "failed"]
    /\ UNCHANGED <<files, processing_pdfs, call, temp_files>>
    /\ UNCHANGED outside_highlight

\* The download fails or answers with a status other than 200 (lines 129-133);
\* the finally block removes the temporary file.
TaskDownloadFails(t) ==
    /\ task[t].state = "downloading"
    /\ task' = [task EXCEPT ![t].state = "failed"]
    /\ temp_files' = temp_files \ {t}
    /\ UNCHANGED <<files, processing_pdfs, call>>
    /\ UNCHANGED outside_highlight

\* The download succeeds and the highlights are added (lines 135-153): a
\* document fitz cannot open raises, any other document is saved at the cache
\* path.
TaskRenders(t, opens) ==
    /\ task[t].state = "downloading"
    /\ IF opens
       THEN /\ files' = [files EXCEPT ![KeyOf(t)] = SavedFile(call[t].req)]
            /\ task' = [task EXCEPT ![t].state = "done"]
       ELSE /\ task' = [task EXCEPT ![t].state = "failed"]
            /\ UNCHANGED files
    /\ temp_files' = temp_files \ {t}
    /\ UNCHANGED <<processing_pdfs, call>>
    /\ UNCHANGED outside_highlight

\* A variant that returns the URL whatever the outcome of the task.
ResumeOwnIgnoresFailure(c) ==
    /\ call[c].pc = "rendering"
    /\ Done(call[c].own)
    /\ call' = [call EXCEPT ![c].pc = "returned"]
    /\ UNCHANGED <<files, processing_pdfs, task, temp_files>>
    /\ UNCHANGED outside_highlight

\* The caller's own task ended (lines 89-102): the URL, or HTTPException 500.
ResumeOwn(c) ==
    /\ call[c].pc = "rendering"
    /\ Done(call[c].own)
    /\ call' = [call EXCEPT ![c].pc =
                   IF task[call[c].own].state = "done" THEN "returned" ELSE "raised"]
    /\ UNCHANGED <<files, processing_pdfs, task, temp_files>>
    /\ UNCHANGED outside_highlight

HNext ==
    \/ \E c \in Calls, req \in Requests : GetHighlightedPdf(c, req)
    \/ \E c \in Calls : ResumeAfterWait(c)
    \/ \E t \in Calls : TaskStart(t)
    \/ \E t \in Calls : TaskDownloadFails(t)
    \/ \E t \in Calls, opens \in BOOLEAN : TaskRenders(t, opens)
    \/ \E c \in Calls : ResumeOwn(c)

\* Number of calls of the runs over KeyRequests.
MaxKeyCalls == 2

\* The calls are made with the requests of KeyRequests.
KeyNext ==
    \/ \E c \in 1..MaxKeyCalls, req \in KeyRequests : GetHighlightedPdf(c, req)
    \/ \E c \in Calls : ResumeAfterWait(c)
    \/ \E t \in Calls : TaskStart(t)
    \/ \E t \in Calls : TaskDownloadFails(t)
    \/ \E t \in Calls, opens \in BOOLEAN : TaskRenders(t, opens)
    \/ \E c \in Calls : ResumeOwn(c)

(***************************************************************************)
(* Relevance scorer and ranker: rank_search_results                        *)
(***************************************************************************)

\* Number of candidates handed to rank_search_results.
MaxCandidates == 2

\* The longest candidate list of the runs that fill the semaphore.
MaxFanOut == 11

\* asyncio.Semaphore(10)
SemaphoreLimit == 10

\* The default of result_data.get(..., 5) and the neutral fallback score.
NeutralScore == 5

\* A score field of the oracle's JSON object: a number, a value that is no
\* number (a string, null), or no such key.
Num(v) == [tag |-> "num", val |-> v]

Absent == [tag |-> "absent", val |-> 0]

NonNumeric == [tag |-> "text", val |-> 0]

ContextualValues == {0, 7}

DirectValues == {3, 4, 6, 7}

MatchTypes == {"direct", "balanced", "contextual"}

\* The labels the oracle proposes in the model: for every direct score one of
\* them differs from the label of the thresholds.
OracleLabels == {"direct", "contextual"}

Reply(kind, c, d, label) ==
    [kind |-> kind, contextual_score |-> c, direct_match_score |-> d,
     match_type |-> label]

NoReply == Reply("none", Absent, Absent, "balanced")

\* Objects with scores at the upper end of the 0-10 scale the prompt asks
\* for (lines 280-281), and beyond both ends: nothing but the prompt keeps
\* the oracle on the scale.
ExtremeReplies ==
    { Reply("object", Num(c), Num(d), "direct") :
        <<c, d>> \in {<<9, 9>>, <<10, 8>>, <<10, 10>>, <<11, -1>>, <<-1, 11>>} }

\* What the scoring oracle can do: the call raises, the content is no JSON,
\* the JSON is no object, or it is an object.
OracleReplies ==
    { Reply(k, Absent, Absent, "balanced") : k \in {"raise", "not_json", "not_object"} }
    \cup { Reply("object", c, d, l) :
             c \in { Num(v) : v \in ContextualValues } \cup {Absent, NonNumeric},
             d \in { Num(v) : v \in DirectValues } \cup {Absent, NonNumeric},
             l \in OracleLabels }
    \cup ExtremeReplies

\* The double (c * 0.3) + (d * 0.7) is not always the double nearest to
\* (3c + 7d) / 10. FloatError[c + 2][d + 2] is its distance from (3c + 7d) / 10
\* in units of 2^-54 (rounded), for c and d in -1..11; with it OverallScore
\* orders and equates the scores exactly as the doubles do.
FloatError ==
    <<
      <<  0,   0,  -1,  -2,  -7,   0,   3, -10,  -6,  -3,   0,   3, -10>>,
      <<  1,   0,  -1,  -2,  -6,  -3,   0, -13, -10,  -6,  -3,   0, -13>>,
      <<  1,   0,   0,  -1, -10,  -6,  -3, -16, -13, -10,  -6,  -3, -16>>,
      <<  0,   0,  -3,   0,  -5,  -2,  -6, -19, -16, -13, -10,  -6, -19>>,
      << -1,  -2,  -2,  -3,  -8,  -5,   6,  -6, -19,   0, -13,   6,  -6>>,
      <<  0,  -1,  -2,  -6,  -3,   0,   3, -10,  -6,  -3,   0, -13, -26>>,
      <<  1,   0,   3,  -2,  -6,  -3,   0, -13, -10,  -6,  -3,   0, -13>>,
      << -2,  -3,   0,  -5, -10,  -6,  -3, -16, -13, -10,  -6,  13,   0>>,
      <<  2,   2,  -3,   0, -13,   6,  -6, -19,   0, -13,   6,  -6, -19>>,
      << -1,  -2,  -6,  -3,   0, -13,   6,  -6, -19,   0, -13,   6,  -6>>,
      << -4,  -5, -10,  -6, -19,   0, -13, -26,  -6, -19,   0, -13, -26>>,
      << -3,   0,   3,   6,  -6,  -3,   0, -13, -10,  -6,  13,   0, -13>>,
      << -6,  -3,   0, -13, -10,  -6,  -3, -16, -13, -26,  -6,  13,   0>>
    >>

ScoreUnit == 1000

\* overall_score, in units of 1 / (10 * ScoreUnit) (line 319).
OverallScore(c, d) == (3 * c + 7 * d) * ScoreUnit + FloatError[c + 2][d + 2]

\* An integer score on the scale of OverallScore.
AsScore(n) == n * 10 * ScoreUnit

DocInfo(c, d, type, overall) ==
    [contextual_score |-> c, direct_match_score |-> d, match_type |-> type,
     overall_score |-> overall]

NoInfo == DocInfo(0, 0, "none", 0)

\* The fallback of the two except branches (lines 323-341).
NeutralInfo == DocInfo(NeutralScore, NeutralScore, "balanced", AsScore(5))

GetScoreOrZero(field) == IF field.tag = "absent" THEN Num(0) ELSE field

\* result_data.get(key, 5)
GetScore(field) == IF field.tag = "absent" THEN Num(NeutralScore) ELSE field

MatchTypeFromLabel(direct_score, label) == label

\* Lines 310-316: the label of the oracle is not read.
MatchTypeOf(direct_score, label) ==
    IF direct_score >= 7 THEN "direct"
    ELSE IF direct_score >= 4 THEN "balanced"
    ELSE "contextual"

\* analyze_single_document (lines 286-341). Comparing or multiplying a score
\* that is no number raises TypeError, and .get on a JSON value that is no
\* object raises AttributeError: both reach the outer except.
AnalyzeSingleDocument(reply) ==
    IF reply.kind # "object" THEN NeutralInfo
    ELSE LET contextual_score == GetScore(reply.contextual_score)
             direct_score == GetScore(reply.direct_match_score)
         IN  IF direct_score.tag # "num" \/ contextual_score.tag # "num"
             THEN NeutralInfo
             ELSE DocInfo(contextual_score.val, direct_score.val,
                          MatchTypeOf(direct_score.val, reply.match_type),
                          OverallScore(contextual_score.val, direct_score.val))

\* A variant with the thresholds of "Strong" and "Moderate" exchanged.
StrengthFromFive(overall_score) ==
    IF overall_score >= AsScore(5) THEN "Strong"
    ELSE IF overall_score >= AsScore(9) THEN "Moderate"
    ELSE "Weak"

\* Lines 362-369.
Strength(overall_score) ==
    IF overall_score >= AsScore(9) THEN "Strong"
    ELSE IF overall_score >= AsScore(5) THEN "Moderate"
    ELSE "Weak"

RECURSIVE InsertBeforeEqual(_, _)
\* A variant that puts an element in front of the equal ones.
InsertBeforeEqual(sorted, x) ==
    IF sorted = <<>> THEN <<x>>
    ELSE IF Head(sorted).overall_score > x.overall_score
         THEN <<Head(sorted)>> \o InsertBeforeEqual(Tail(sorted), x)
         ELSE <<x>> \o sorted

\* list.sort(key=overall_score, reverse=True) is stable: an element goes
\* behind the elements that are not smaller and were there before it.
RECURSIVE InsertDescending(_, _)
InsertDescending(sorted, x) ==
    IF sorted = <<>> THEN <<x>>
    ELSE IF Head(sorted).overall_score >= x.overall_score
         THEN <<Head(sorted)>> \o InsertDescending(Tail(sorted), x)
         ELSE <<x>> \o sorted

RECURSIVE InsertAscending(_, _)
InsertAscending(sorted, x) ==
    IF sorted = <<>> THEN <<x>>
    ELSE IF Head(sorted).overall_score <= x.overall_score
         THEN <<Head(sorted)>> \o InsertAscending(Tail(sorted), x)
         ELSE <<x>> \o sorted

RECURSIVE SortAscending(_)
SortAscending(results) ==
    IF results = <<>> THEN <<>>
    ELSE InsertAscending(SortAscending(SubSeq(results, 1, Len(results) - 1)),
                         results[Len(results)])

\* Line 356.
RECURSIVE SortByOverallScore(_)
SortByOverallScore(results) ==
    IF results = <<>> THEN <<>>
    ELSE InsertDescending(SortByOverallScore(SubSeq(results, 1, Len(results) - 1)),
                          results[Len(results)])

\* Lines 358-369: rank and strength, by position.
AddRankAndStrength(sorted) ==
    [i \in DOMAIN sorted |->
        [doc |-> sorted[i].doc,
         contextual_score |-> sorted[i].contextual_score,
         direct_match_score |-> sorted[i].direct_match_score,
         match_type |-> sorted[i].match_type,
         overall_score |-> sorted[i].overall_score,
         rank |-> (i - 1) + 1,
         strength |-> Strength(sorted[i].overall_score)]]

\* A variant that pairs candidate i with the result of the candidate at the
\* mirrored position.
GatheredMirrored ==
    [i \in DOMAIN document_chunks |->
        LET m == Len(document_chunks) + 1 - i IN
        [doc |-> document_chunks[i],
         contextual_score |-> analysis[m].contextual_score,
         direct_match_score |-> analysis[m].direct_match_score,
         match_type |-> analysis[m].match_type,
         overall_score |-> analysis[m].overall_score]]

\* asyncio.gather: result i is the doc_info of candidate i (lines 352-353).
Gathered ==
    [i \in DOMAIN document_chunks |->
        [doc |-> document_chunks[i],
         contextual_score |-> analysis[i].contextual_score,
         direct_match_score |-> analysis[i].direct_match_score,
         match_type |-> analysis[i].match_type,
         overall_score |-> analysis[i].overall_score]]

Candidates == 1..MaxCandidates

\* The positions of the per-candidate arrays of the model.
Slots == 1..(IF MaxFanOut > MaxCandidates THEN MaxFanOut ELSE MaxCandidates)

RIdle ==
    /\ document_chunks = <<>>
    /\ request = [i \in Slots |-> "pending"]
    /\ oracle_reply = [i \in Slots |-> NoReply]
    /\ analysis = [i \in Slots |-> NoInfo]
    /\ ranked_results = <<>>
    /\ rank_pc = "idle"

\* rank_search_results is called with n candidates (documents 1..n).
RInit ==
    /\ \E n \in 0..MaxCandidates : document_chunks = [i \in 1..n |-> i]
    /\ request = [i \in Slots |-> "pending"]
    /\ oracle_reply = [i \in Slots |-> NoReply]
    /\ analysis = [i \in Slots |-> NoInfo]
    /\ ranked_results = <<>>
    /\ rank_pc = "scoring"

\* rank_search_results is called with up to MaxFanOut candidates.
FanOutInit ==
    /\ \E n \in 0..MaxFanOut : document_chunks = [i \in 1..n |-> i]
    /\ request = [i \in Slots |-> "pending"]
    /\ oracle_reply = [i \in Slots |-> NoReply]
    /\ analysis = [i \in Slots |-> NoInfo]
    /\ ranked_results = <<>>
    /\ rank_pc = "scoring"

\* The candidates whose task is inside `async with semaphore`: the request
\* was sent and analyze_single_document has not returned.
InFlight ==
    { i \in DOMAIN document_chunks : request[i] \in {"in_flight", "hung"} }

\* A variant without the semaphore.
SemaphoreAlwaysFree == TRUE

\* The semaphore has a free slot (asyncio.Semaphore(10), lines 345-348).
SemaphoreFree == Cardinality(InFlight) < SemaphoreLimit

\* Lines 213-214.
ReturnEmpty ==
    /\ rank_pc = "scoring"
    /\ document_chunks = <<>>
    /\ rank_pc' = "returned"
    /\ UNCHANGED <<document_chunks, request, oracle_reply, analysis, ranked_results>>
    /\ UNCHANGED outside_rank

\* analyze_with_semaphore enters the semaphore and sends the request
\* (lines 347-349, 286-293). gather starts the tasks in list order and the
\* semaphore wakes its waiters first come, first served, so the candidates
\* enter in list order.
IssueRequest(i) ==
    /\ rank_pc = "scoring"
    /\ i \in DOMAIN document_chunks
    /\ request[i] = "pending"
    /\ \A j \in DOMAIN document_chunks : j < i => request[j] # "pending"
    /\ SemaphoreFree
    /\ request' = [request EXCEPT ![i] = "in_flight"]
    /\ UNCHANGED <<document_chunks, oracle_reply, analysis, ranked_results, rank_pc>>
    /\ UNCHANGED outside_rank

\* The oracle answers candidate i (or the call raises) and
\* analyze_single_document returns its doc_info.
OracleAnswers(i, reply) ==
    /\ rank_pc = "scoring"
    /\ i \in DOMAIN document_chunks
    /\ request[i] = "in_flight"
    /\ request' = [request EXCEPT ![i] = "done"]
    /\ oracle_reply' = [oracle_reply EXCEPT ![i] = reply]
    /\ analysis' = [analysis EXCEPT ![i] = AnalyzeSingleDocument(reply)]
    /\ UNCHANGED <<document_chunks, ranked_results, rank_pc>>
    /\ UNCHANGED outside_rank

\* The oracle never responds to the request of candidate i: the await on
\* line 287, which is given no timeout, does not resume, and the task keeps
\* its place in the semaphore.
OracleHangs(i) ==
    /\ rank_pc = "scoring"
    /\ i \in DOMAIN document_chunks
    /\ request[i] = "in_flight"
    /\ request' = [request EXCEPT ![i] = "hung"]
    /\ UNCHANGED <<document_chunks, oracle_reply, analysis, ranked_results, rank_pc>>
    /\ UNCHANGED outside_rank

\* gather has every result: sort, rank, label, return (lines 353-371).
SortAndReturn ==
    /\ rank_pc = "scoring"
    /\ document_chunks # <<>>
    /\ \A i \in DOMAIN document_chunks : request[i] = "done"
    /\ ranked_results' = AddRankAndStrength(SortByOverallScore(Gathered))
    /\ rank_pc' = "returned"
    /\ UNCHANGED <<document_chunks, request, oracle_reply, analysis>>
    /\ UNCHANGED outside_rank

RNext ==
    \/ ReturnEmpty
    \/ \E i \in Candidates : IssueRequest(i)
    \/ \E i \in Candidates, reply \in OracleReplies : OracleAnswers(i, reply)
    \/ SortAndReturn

\* The replies of the runs that fill the semaphore: every call raises.
FanOutReplies == { Reply("raise", Absent, Absent, "balanced") }

FanOutNext ==
    \/ ReturnEmpty
    \/ \E i \in Slots : IssueRequest(i)
    \/ \E i \in Slots, reply \in FanOutReplies : OracleAnswers(i, reply)
    \/ SortAndReturn

\* The runs in which the oracle may leave a request without any response.
HungCallNext ==
    \/ RNext
    \/ \E i \in Candidates : OracleHangs(i)

(***************************************************************************)
(* Ingestion (app/ingestion) and hybrid_search (app/search/utils.py)       *)
(***************************************************************************)

\* The longest list of Airtable records a refresh reads.
MaxRecords == 2

\* The largest number of rows the documents table holds.
MaxRows == 3

\* top_k of the two retrieval queries.
TopK == 1

\* The values of the Airtable field "ID".
AirtableIds == {1, 2}

\* The pages parse_pdf_file extracts from the file of a record.
PdfPages(document_id) == IF document_id = 1 THEN 1 ELSE 2

\* The relevance scores the reranker gives (two levels of a float).
RelevanceScores == {1, 2}

\* routers.py 51-54.
DevLimitThreshold == 5

DevLimit == 15

RECURSIVE SelectSeq2(_, _)
\* [x for x in seq if x in keep]
SelectSeq2(seq, keep) ==
    IF seq = <<>> THEN <<>>
    ELSE (IF Head(seq) \in keep THEN <<Head(seq)>> ELSE <<>>)
             \o SelectSeq2(Tail(seq), keep)

\* get_missing_document_ids: the Airtable IDs no row carries.
get_missing_document_ids(online_records) ==
    Range(online_records) \ { documents_table[i].document_id : i \in DOMAIN documents_table }

\* routers.py 47-54: every record whose ID is missing, the list cut to 15
\* when longer than 5.
missing_records(online_records) ==
    LET recs == SelectSeq2(online_records, get_missing_document_ids(online_records))
    IN  IF Len(recs) > DevLimitThreshold
        THEN SubSeq(recs, 1, IF Len(recs) < DevLimit THEN Len(recs) ELSE DevLimit)
        ELSE recs

\* The lists seq can be narrowed and reordered to: download_all_files
\* collects the downloads as they complete and drops the failed ones.
Injections(n, m) ==
    { f \in [1..n -> 1..m] : \A i, j \in 1..n : i # j => f[i] # f[j] }

Downloaded(records) ==
    UNION { { [i \in 1..n |-> records[f[i]]] : f \in Injections(n, Len(records)) }
            : n \in 0..Len(records) }

RECURSIVE save_document_to_db(_, _, _)
\* One row per page, the id given by the table's sequence.
save_document_to_db(table, document_id, page) ==
    IF page > PdfPages(document_id) THEN table
    ELSE save_document_to_db(
             Append(table, [id |-> Len(table) + 1,
                            document_id |-> document_id,
                            page_number |-> page]),
             document_id, page + 1)

RECURSIVE save_all_to_db(_, _)
save_all_to_db(table, metadata_list) ==
    IF metadata_list = <<>> THEN table
    ELSE save_all_to_db(save_document_to_db(table, Head(metadata_list), 1),
                        Tail(metadata_list))

OnlineRecords == UNION { [1..n -> AirtableIds] : n \in 0..MaxRecords }

\* POST /airtable/refresh
AirtableRefreshAndIngest ==
    /\ \E online_records \in OnlineRecords :
          \E processed_files \in Downloaded(missing_records(online_records)) :
             LET table == save_all_to_db(documents_table, processed_files)
             IN  /\ processed_files # <<>>
                 /\ Len(table) <= MaxRows
                 /\ documents_table' = table
    /\ UNCHANGED <<semantic_results, keyword_results, combined_results,
                   matches, final_results, search_outcome, rerank>>
    /\ UNCHANGED outside_search

\* The row lists a query with LIMIT top_k can return: distinct rows, in any
\* order (the order is the embedding distance or the text rank).
RowLists(n) ==
    { [i \in 1..n |-> documents_table[f[i]]] : f \in Injections(n, Len(documents_table)) }

Min(a, b) == IF a < b THEN a ELSE b

\* perform_semantic_search has no WHERE clause: top_k rows, or all of them.
SemanticResults == RowLists(Min(TopK, Len(documents_table)))

\* perform_keyword_search returns the matching rows only.
KeywordResults == UNION { RowLists(n) : n \in 0..Min(TopK, Len(documents_table)) }

RECURSIVE CombineInto(_, _)
\* Lines 131-138: a row is added unless its id is already a key.
CombineInto(combined, results) ==
    IF results = <<>> THEN combined
    ELSE CombineInto(
             IF \E i \in DOMAIN combined : combined[i].id = Head(results).id
             THEN combined ELSE Append(combined, Head(results)),
             Tail(results))

Combine(semantic, keyword) == CombineInto(CombineInto(<<>>, semantic), keyword)

\* co.rerank(top_n=None): every text once, by 0-based index, with a score.
RerankResponses(n) ==
    { [i \in 1..n |-> [index |-> f[i] - 1, relevance_score |-> score[i]]]
        : f \in Injections(n, n), score \in [1..n -> RelevanceScores] }

\* Lines 165-180.
CollectMatches(combined, response) ==
    [r \in DOMAIN response |->
        LET doc == combined[response[r].index + 1]
        IN  [doc_id |-> doc.id, doc |-> doc,
             page_number |-> doc.page_number,
             relevance_score |-> response[r].relevance_score,
             rank |-> (r - 1) + 1]]

RECURSIVE GroupInto(_, _)
\* Lines 183-195: the dict keyed by doc_id, in insertion order.
GroupInto(documents, ms) ==
    IF ms = <<>> THEN documents
    ELSE LET match == Head(ms)
             known == documents # <<>> /\ \E i \in DOMAIN documents : documents[i].doc.id = match.doc_id
             added == IF known THEN documents
                      ELSE Append(documents, [doc |-> match.doc, matches |-> <<>>,
                                              best_score |-> match.relevance_score])
             k == CHOOSE i \in DOMAIN added : added[i].doc.id = match.doc_id
         IN  GroupInto(
                 [added EXCEPT ![k].matches = Append(@, match),
                               ![k].best_score =
                                   IF match.relevance_score > @
                                   THEN match.relevance_score ELSE @],
                 Tail(ms))

GroupByDocument(ms) == GroupInto(<<>>, ms)

RECURSIVE InsertByBestScore(_, _)
\* sorted(key=best_score, reverse=True) is stable.
InsertByBestScore(sorted, x) ==
    IF sorted = <<>> THEN <<x>>
    ELSE IF Head(sorted).best_score >= x.best_score
         THEN <<Head(sorted)>> \o InsertByBestScore(Tail(sorted), x)
         ELSE <<x>> \o sorted

RECURSIVE InsertByBestScoreAscending(_, _)
InsertByBestScoreAscending(sorted, x) ==
    IF sorted = <<>> THEN <<x>>
    ELSE IF Head(sorted).best_score <= x.best_score
         THEN <<Head(sorted)>> \o InsertByBestScoreAscending(Tail(sorted), x)
         ELSE <<x>> \o sorted

RECURSIVE SortedAscending(_)
SortedAscending(documents) ==
    IF documents = <<>> THEN <<>>
    ELSE InsertByBestScoreAscending(
             SortedAscending(SubSeq(documents, 1, Len(documents) - 1)),
             documents[Len(documents)])

RECURSIVE sorted_docs(_)
\* Lines 198-202.
sorted_docs(documents) ==
    IF documents = <<>> THEN <<>>
    ELSE InsertByBestScore(sorted_docs(SubSeq(documents, 1, Len(documents) - 1)),
                           documents[Len(documents)])

\* Lines 205-230: one DocumentSearchResult per entry (the matches of an
\* entry are already in rank order, they were appended in that order).
FinalResults(sorted) ==
    [i \in DOMAIN sorted |->
        [metadata |-> sorted[i].doc,
         best_score |-> sorted[i].best_score,
         matches |-> [m \in DOMAIN sorted[i].matches |->
                         [page_number |-> sorted[i].matches[m].page_number,
                          relevance_score |-> sorted[i].matches[m].relevance_score,
                          rank |-> sorted[i].matches[m].rank]]]]

\* hybrid_search(precision=False), the reranker answering: the texts of
\* the merged rows, however many, are handed to co.rerank (lines 139-162).
HybridSearch ==
    /\ search_outcome = "none"
    /\ \E semantic \in SemanticResults, keyword \in KeywordResults :
          LET combined == Combine(semantic, keyword)
          IN  /\ \E response \in RerankResponses(Len(combined)) :
                    /\ semantic_results' = semantic
                    /\ keyword_results' = keyword
                    /\ combined_results' = combined
                    /\ matches' = CollectMatches(combined, response)
                    /\ final_results' =
                           FinalResults(sorted_docs(GroupByDocument(
                               CollectMatches(combined, response))))
    /\ search_outcome' = "returned"
    /\ rerank' = "answered"
    /\ UNCHANGED documents_table
    /\ UNCHANGED outside_search

\* hybrid_search, a query or the reranker raising (lines 336-338).
HybridSearchRaises ==
    /\ search_outcome = "none"
    /\ \E semantic \in SemanticResults, keyword \in KeywordResults :
          /\ semantic_results' = semantic
          /\ keyword_results' = keyword
          /\ combined_results' = Combine(semantic, keyword)
    /\ rerank' \in {"not_called", "raised"}
    /\ matches' = <<>>
    /\ final_results' = <<>>
    /\ search_outcome' = "raised"
    /\ UNCHANGED documents_table
    /\ UNCHANGED outside_search

\* The caller has the result or the exception; the locals of the call are
\* gone.
HybridSearchEnds ==
    /\ search_outcome # "none"
    /\ semantic_results' = <<>>
    /\ keyword_results' = <<>>
    /\ combined_results' = <<>>
    /\ matches' = <<>>
    /\ final_results' = <<>>
    /\ search_outcome' = "none"
    /\ rerank' = "not_called"
    /\ UNCHANGED documents_table
    /\ UNCHANGED outside_search

SIdle ==
    /\ documents_table = <<>>
    /\ semantic_results = <<>>
    /\ keyword_results = <<>>
    /\ combined_results = <<>>
    /\ matches = <<>>
    /\ final_results = <<>>
    /\ search_outcome = "none"
    /\ rerank = "not_called"

SNext ==
    \/ AirtableRefreshAndIngest
    \/ HybridSearch
    \/ HybridSearchRaises
    \/ HybridSearchEnds

(***************************************************************************)
(* extract_highlight_keyphrase (app/search/openai_utils.py)                *)
(*                                                                         *)
(* A Python str is the tuple of its characters.  The operators below are   *)
(* the str methods the function uses, with Python's 0-based positions.     *)
(***************************************************************************)

\* len(raw_text) is compared with 30 (lines 133, 187, 193).
FallbackChars == 30

\* raw_text.find(".", 0, 100), line 178.
SentenceSearchEnd == 100

\* first_period > 5, line 179.
MinSentenceEnd == 5

\* words[:5], line 184.
MaxSentenceWords == 5

\* len(keyword.strip()) >= 3 (line 144), len(original_word) >= 3 (line 170).
MinKeywordLength == 3

\* len(word) > 3 (lines 159, 181).
ShortWordLength == 3

UpperCase == <<"A", "B", "C", "D", "E", "F", "G", "H", "I", "J", "K", "L", "M",
               "N", "O", "P", "Q", "R", "S", "T", "U", "V", "W", "X", "Y", "Z">>

LowerCase == <<"a", "b", "c", "d", "e", "f", "g", "h", "i", "j", "k", "l", "m",
               "n", "o", "p", "q", "r", "s", "t", "u", "v", "w", "x", "y", "z">>

\* str.lower
Lower(text) ==
    [i \in DOMAIN text |->
        IF \E k \in DOMAIN UpperCase : UpperCase[k] = text[i]
        THEN LowerCase[CHOOSE k \in DOMAIN UpperCase : UpperCase[k] = text[i]]
        ELSE text[i]]

Whitespace == {" ", "\n", "\t"}

\* text[start:end] for 0 <= start
Slice(text, start, end) == SubSeq(text, start + 1, Min(end, Len(text)))

\* text.find(sub, start, end): the lowest position, or -1
Find(text, sub, start, end) ==
    LET last == Min(end, Len(text))
        hits == { i \in start..(last - Len(sub)) :
                     SubSeq(text, i + 1, i + Len(sub)) = sub }
    IN  IF hits = {} THEN -1 ELSE CHOOSE i \in hits : \A j \in hits : i <= j

\* sub in text
Contains(text, sub) == Find(text, sub, 0, Len(text)) # -1

RECURSIVE LStrip(_)
LStrip(text) ==
    IF text # <<>> /\ Head(text) \in Whitespace THEN LStrip(Tail(text)) ELSE text

RECURSIVE RStrip(_)
RStrip(text) ==
    IF text # <<>> /\ text[Len(text)] \in Whitespace
    THEN RStrip(SubSeq(text, 1, Len(text) - 1)) ELSE text

\* str.strip()
Strip(text) == RStrip(LStrip(text))

RECURSIVE Split(_, _)
\* text.split(sep)
Split(text, sep) ==
    LET at == Find(text, sep, 0, Len(text))
    IN  IF at = -1 THEN <<text>>
        ELSE <<Slice(text, 0, at)>> \o Split(Slice(text, at + Len(sep), Len(text)), sep)

RECURSIVE SplitWords(_)
\* text.split(): the runs of characters that are not whitespace
SplitWords(text) ==
    LET rest == LStrip(text)
        ends == { i \in DOMAIN rest : rest[i] \in Whitespace }
        stop == IF ends = {} THEN Len(rest) + 1
                ELSE CHOOSE i \in ends : \A j \in ends : i <= j
    IN  IF rest = <<>> THEN <<>>
        ELSE <<SubSeq(rest, 1, stop - 1)>> \o SplitWords(SubSeq(rest, stop, Len(rest)))

RECURSIVE Join(_, _)
\* sep.join(words)
Join(words, sep) ==
    IF words = <<>> THEN <<>>
    ELSE IF Len(words) = 1 THEN words[1]
    ELSE words[1] \o sep \o Join(Tail(words), sep)

Comma == <<",">>

Period == <<".">>

\* 'METADATA:'
MetadataMarker ==
    <<"M", "E", "T", "A", "D", "A", "T", "A", ":">>

\* 'CONTEXT:'
ContextMarker ==
    <<"C", "O", "N", "T", "E", "X", "T", ":">>

\* 'RAW TEXT:'
RawTextMarker ==
    <<"R", "A", "W", " ", "T", "E", "X", "T", ":">>

\* 'NO_MATCH_FOUND'
NoMatchSentinel ==
    <<"N", "O", "_", "M", "A", "T", "C", "H", "_", "F", "O", "U", "N", "D">>

\* Line 181.
Stopwords ==
    { <<"t", "h", "i", "s">>,
      <<"t", "h", "a", "t">>,
      <<"w", "i", "t", "h">>,
      <<"f", "r", "o", "m">>,
      <<"h", "a", "v", "e">>,
      <<"b", "e", "e", "n">>,
      <<"w", "e", "r", "e">>,
      <<"t", "h", "e", "i", "r">>,
      <<"t", "h", "e", "r", "e">> }

(* The chunks: file_processing_utils.process_file builds the contextualized *)
(* chunk of a page from the metadata, the summary and the page's text;      *)
(* parse_pdf_file keeps the pages whose stripped text is not empty.         *)

\* 'Information about this document:<newline>Year: 2020<newline><newline>'
MetadataSection ==
    <<"I", "n", "f", "o", "r", "m", "a", "t", "i", "o", "n", " ", "a", "b",
      "o", "u", "t", " ", "t", "h", "i", "s", " ", "d", "o", "c", "u", "m",
      "e", "n", "t", ":", "\n", "Y", "e", "a", "r", ":", " ", "2", "0",
      "2", "0", "\n", "\n">>

\* 'A health survey.'
ChunkSummary ==
    <<"A", " ", "h", "e", "a", "l", "t", "h", " ", "s", "u", "r", "v", "e",
      "y", ".">>

\* the line break and the indentation between two sections
SectionIndent ==
    <<"\n", " ", " ", " ", " ", " ", " ", " ", " ">>

\* 'The vaccination rate fell by 12%.'
PageVaccination ==
    <<"T", "h", "e", " ", "v", "a", "c", "c", "i", "n", "a", "t", "i", "o",
      "n", " ", "r", "a", "t", "e", " ", "f", "e", "l", "l", " ", "b", "y",
      " ", "1", "2", "%", ".">>

\* 'Health Survey 2020 of rural households'
PageHealthSurvey ==
    <<"H", "e", "a", "l", "t", "h", " ", "S", "u", "r", "v", "e", "y", " ",
      "2", "0", "2", "0", " ", "o", "f", " ", "r", "u", "r", "a", "l", " ",
      "h", "o", "u", "s", "e", "h", "o", "l", "d", "s">>

\* 'No. 12 water'
PageNumbered ==
    <<"N", "o", ".", " ", "1", "2", " ", "w", "a", "t", "e", "r">>

\* 'Is it ok or no.'
PageShortWords ==
    <<"I", "s", " ", "i", "t", " ", "o", "k", " ", "o", "r", " ", "n", "o",
      ".">>

\* 'This were there with Data.'
PageStopwords ==
    <<"T", "h", "i", "s", " ", "w", "e", "r", "e", " ", "t", "h", "e", "r",
      "e", " ", "w", "i", "t", "h", " ", "D", "a", "t", "a", ".">>

\* 'questionnaire '
LongWord ==
    <<"q", "u", "e", "s", "t", "i", "o", "n", "n", "a", "i", "r", "e", " ">>

RECURSIVE Repeat(_, _)
Repeat(text, n) == IF n = 0 THEN <<>> ELSE text \o Repeat(text, n - 1)

\* A page of more than 100 characters whose first period is past them.
PageLong == Repeat(LongWord, 8) \o Period

\* 'Code NO_MATCH_FOUND is used.'
PageSentinel ==
    <<"C", "o", "d", "e", " ", "N", "O", "_", "M", "A", "T", "C", "H", "_",
      "F", "O", "U", "N", "D", " ", "i", "s", " ", "u", "s", "e", "d", ".">>

PageTexts == { PageVaccination, PageHealthSurvey, PageNumbered,
               PageShortWords, PageStopwords, PageLong, PageSentinel }

\* file_processing_utils.py 163-165
ContextualizedChunk(text) ==
    MetadataMarker \o <<" ">> \o MetadataSection \o SectionIndent
        \o ContextMarker \o <<" ">> \o ChunkSummary \o SectionIndent
        \o RawTextMarker \o <<" ">> \o text

\* 'vaccination trends'
QueryVaccination ==
    <<"v", "a", "c", "c", "i", "n", "a", "t", "i", "o", "n", " ", "t", "r",
      "e", "n", "d", "s">>

\* 'health SURVEY data'
QueryHealth ==
    <<"h", "e", "a", "l", "t", "h", " ", "S", "U", "R", "V", "E", "Y", " ",
      "d", "a", "t", "a">>

\* 'is it ok'
QueryShort ==
    <<"i", "s", " ", "i", "t", " ", "o", "k">>

Queries == { QueryVaccination, QueryHealth, QueryShort }

\* 'rate, Health, Data'
ReplyValid ==
    <<"r", "a", "t", "e", ",", " ", "H", "e", "a", "l", "t", "h", ",", " ",
      "D", "a", "t", "a">>

\* 'health, RATE'
ReplyWrongCase ==
    <<"h", "e", "a", "l", "t", "h", ",", " ", "R", "A", "T", "E">>

\* 'it, or, '
ReplyShort ==
    <<"i", "t", ",", " ", "o", "r", ",", " ">>

\* ' NO_MATCH_FOUND<newline>'
ReplySentinelPadded ==
    <<" ", "N", "O", "_", "M", "A", "T", "C", "H", "_", "F", "O", "U", "N",
      "D", "\n">>

\* 'rate, by, , 12%, RATE, rate'
ReplyMixed ==
    <<"r", "a", "t", "e", ",", " ", "b", "y", ",", " ", ",", " ", "1", "2",
      "%", ",", " ", "R", "A", "T", "E", ",", " ", "r", "a", "t", "e">>

\* message.content of the oracle's response.
KeyphraseReplies ==
    { ReplyValid, ReplyWrongCase, ReplyShort, ReplyMixed, NoMatchSentinel,
      ReplySentinelPadded }

\* Lines 68-91: the RAW TEXT section of a structured chunk, stripped; the
\* whole chunk when there is none or it is empty.
RawTextOf(chunk) ==
    LET parts == Split(chunk, RawTextMarker)
        section == IF Contains(chunk, MetadataMarker) /\ Len(parts) > 1
                   THEN Strip(parts[2]) ELSE <<>>
    IN  IF section = <<>> THEN chunk ELSE section

\* raw_text[: min(30, len(raw_text))]
FirstChars(raw_text) == Slice(raw_text, 0, Min(FallbackChars, Len(raw_text)))

\* A variant without the test of the length.
ValidKeywordsOfAnyLength(keyword_list, raw_text) ==
    LET parts == Split(keyword_list, Comma)
        keywords == [i \in DOMAIN parts |-> Strip(parts[i])]
        Valid(keyword) == keyword # <<>> /\ Contains(raw_text, keyword)
    IN  SelectSeq(keywords, Valid)

\* Lines 137-146.
ValidKeywords(keyword_list, raw_text) ==
    LET parts == Split(keyword_list, Comma)
        keywords == [i \in DOMAIN parts |-> Strip(parts[i])]
        Valid(keyword) == /\ keyword # <<>>
                          /\ Contains(raw_text, keyword)
                          /\ Len(Strip(keyword)) >= MinKeywordLength
    IN  SelectSeq(keywords, Valid)

LoweredWord(raw_text, word) == word

\* Lines 167-168: the characters of raw_text where the lowered text has word.
OriginalWord(raw_text, word) ==
    LET start_pos == Find(Lower(raw_text), word, 0, Len(raw_text))
    IN  Slice(raw_text, start_pos, start_pos + Len(word))

\* Lines 159-172.
FoundWords(query_str, raw_text) ==
    LET Long(word) == Len(word) > ShortWordLength
        long_words == SelectSeq(SplitWords(query_str), Long)
        query_words == [i \in DOMAIN long_words |-> Lower(long_words[i])]
        Hit(word) == Contains(Lower(raw_text), word)
        hits == SelectSeq(query_words, Hit)
        originals == [i \in DOMAIN hits |-> OriginalWord(raw_text, hits[i])]
        LongEnough(word) == Len(word) >= MinKeywordLength
    IN  SelectSeq(originals, LongEnough)

\* Lines 178-181: the words of the first sentence, [] when the first period
\* is not within positions 6..99.
FirstSentenceWords(raw_text) ==
    LET first_period == Find(raw_text, Period, 0, SentenceSearchEnd)
        first_sentence == Strip(Slice(raw_text, 0, first_period + 1))
        Meaningful(w) == Len(w) > ShortWordLength /\ Lower(w) \notin Stopwords
    IN  IF first_period # -1 /\ first_period > MinSentenceEnd
        THEN SelectSeq(SplitWords(first_sentence), Meaningful)
        ELSE <<>>

Returned(value, path) == [keyphrase |-> value, path |-> path]

\* A variant that tries the first sentence before the words of the query.
FallbacksSentenceFirst(query_str, raw_text) ==
    LET found_words == FoundWords(query_str, raw_text)
        words == FirstSentenceWords(raw_text)
    IN  IF words # <<>>
        THEN Returned(Join(SubSeq(words, 1, Min(MaxSentenceWords, Len(words))), Comma),
                      "first_sentence")
        ELSE IF found_words # <<>>
        THEN Returned(Join(found_words, Comma), "query_words")
        ELSE Returned(Strip(FirstChars(raw_text)), "first_chars")

\* Lines 156-189: what follows when no keyword of the oracle is valid.
Fallbacks(query_str, raw_text) ==
    LET found_words == FoundWords(query_str, raw_text)
        words == FirstSentenceWords(raw_text)
    IN  IF found_words # <<>>
        THEN Returned(Join(found_words, Comma), "query_words")
        ELSE IF words # <<>>
        THEN Returned(Join(SubSeq(words, 1, Min(MaxSentenceWords, Len(words))), Comma),
                      "first_sentence")
        ELSE Returned(Strip(FirstChars(raw_text)), "first_chars")

\* A variant that validates the sentinel as a keyword before falling back.
NoMatchValidated(query_str, raw_text) ==
    IF Contains(raw_text, NoMatchSentinel)
    THEN Returned(NoMatchSentinel, "valid_keywords")
    ELSE Fallbacks(query_str, raw_text)

NoMatchToFallbacks(query_str, raw_text) ==
    [Fallbacks(query_str, raw_text) EXCEPT !.path = "no_match"]

\* Lines 131-134: the oracle answered NO_MATCH_FOUND.
NoMatchFound(query_str, raw_text) == Returned(FirstChars(raw_text), "no_match")

\* The oracle's answer: it raised, or message.content.
KeyphraseRaise == [kind |-> "raise", content |-> <<>>]

KeyphraseContent(content) == [kind |-> "content", content |-> content]

NoKeyphraseReply == [kind |-> "none", content |-> <<>>]

NoKeyphrase == Returned(<<>>, "none")

\* extract_highlight_keyphrase, given the oracle's answer.
extract_highlight_keyphrase(query_str, chunk, reply) ==
    LET raw_text == RawTextOf(chunk)
        keyword_list == Strip(reply.content)
        valid_keywords == ValidKeywords(keyword_list, raw_text)
    IN  IF reply.kind = "raise"
        THEN Returned(FirstChars(raw_text), "exception")
        ELSE IF keyword_list = NoMatchSentinel
        THEN NoMatchFound(query_str, raw_text)
        ELSE IF valid_keywords # <<>>
        THEN Returned(Join(valid_keywords, Comma), "valid_keywords")
        ELSE Fallbacks(query_str, raw_text)

KIdle ==
    /\ query = <<>>
    /\ page_text = <<>>
    /\ chunk_content = <<>>
    /\ keyphrase_reply = NoKeyphraseReply
    /\ keyphrase = NoKeyphrase
    /\ keyphrase_pc = "idle"

\* A call of extract_highlight_keyphrase, waiting for the oracle.
KInit ==
    /\ query \in Queries
    /\ page_text \in PageTexts
    /\ chunk_content \in { ContextualizedChunk(page_text), page_text }
    /\ keyphrase_reply = NoKeyphraseReply
    /\ keyphrase = NoKeyphrase
    /\ keyphrase_pc = "awaiting"

KeyphraseOracleAnswers ==
    /\ keyphrase_pc = "awaiting"
    /\ \E content \in KeyphraseReplies :
          /\ keyphrase_reply' = KeyphraseContent(content)
          /\ keyphrase' = extract_highlight_keyphrase(query, chunk_content,
                                                      KeyphraseContent(content))
    /\ keyphrase_pc' = "returned"
    /\ UNCHANGED <<query, page_text, chunk_content>>
    /\ UNCHANGED outside_keyphrase

KeyphraseOracleRaises ==
    /\ keyphrase_pc = "awaiting"
    /\ keyphrase_reply' = KeyphraseRaise
    /\ keyphrase' = extract_highlight_keyphrase(query, chunk_content, KeyphraseRaise)
    /\ keyphrase_pc' = "returned"
    /\ UNCHANGED <<query, page_text, chunk_content>>
    /\ UNCHANGED outside_keyphrase

KNext ==
    \/ KeyphraseOracleAnswers
    \/ KeyphraseOracleRaises

(***************************************************************************)
(* The request handler: search_generic (app/search/routers.py)             *)
(***************************************************************************)

\* The longest list of merged candidates of a request.
MaxHits == 2

\* 'Unable to generate explanation.', as one token.
UnableToExplain == <<"Unable to generate explanation.">>

\* ' Mentions rates. '
ExplanationText ==
    <<" ", "M", "e", "n", "t", "i", "o", "n", "s", " ", "r", "a", "t", "e",
      "s", ".", " ">>

ExplanationRaise == [kind |-> "raise", content |-> <<>>]

ExplanationContent(content) == [kind |-> "content", content |-> content]

\* What the explanation oracle can do: the call raises, or it answers.
ExplanationReplies == {ExplanationRaise, ExplanationContent(ExplanationText)}

\* A variant without the except branch.
explanation_or_exception(reply) ==
    IF reply.kind = "content"
    THEN [raised |-> FALSE, value |-> Strip(reply.content)]
    ELSE [raised |-> TRUE, value |-> <<>>]

\* generate_query_match_explanation (lines 38-51): the stripped content, or
\* the fixed sentence when anything raised.
generate_query_match_explanation(reply) ==
    IF reply.kind = "content"
    THEN [raised |-> FALSE, value |-> Strip(reply.content)]
    ELSE [raised |-> FALSE, value |-> UnableToExplain]

\* The scoring replies of the requests: the call raises, or scores 7 and 7.
GenericScoringReplies ==
    { Reply("raise", Absent, Absent, "balanced"),
      Reply("object", Num(7), Num(7), "direct") }

\* The keyphrase replies of the requests: the call raises, or 'rate, Health, Data'.
GenericKeyphraseReplies == {KeyphraseRaise, KeyphraseContent(ReplyValid)}

\* The chunk of every candidate of the requests.
HitChunk == ContextualizedChunk(PageVaccination)

\* The merged candidates: candidate i is page i of its document, the k-th
\* document met in the list has id k, and every candidate comes with what
\* the three oracles will answer for it.
Hits(n) ==
    { h \in [1..n -> [document_id : 1..n,
                      scoring : GenericScoringReplies,
                      explanation : ExplanationReplies,
                      keyphrase : GenericKeyphraseReplies]] :
        \A i \in 1..n : \A k \in 1..(h[i].document_id - 1) :
            \E j \in 1..(i - 1) : h[j].document_id = k }

DocumentsOf(h) == { h[i].document_id : i \in DOMAIN h }

\* The orders in which a set of documents can be listed.
Orders(docs) ==
    { o \in [1..Cardinality(docs) -> docs] :
        \A i, j \in DOMAIN o : i # j => o[i] # o[j] }

\* rank_search_results on the candidates of h.
RankedHits(h) ==
    AddRankAndStrength(SortByOverallScore(
        [i \in DOMAIN h |->
            LET info == AnalyzeSingleDocument(h[i].scoring) IN
            [doc |-> i,
             contextual_score |-> info.contextual_score,
             direct_match_score |-> info.direct_match_score,
             match_type |-> info.match_type,
             overall_score |-> info.overall_score]]))

\* The match built from a ranked candidate, with its explanation and its
\* keyphrase.
MatchOf(h, m) ==
    [page_number |-> m.doc,
     rank |-> m.rank,
     contextual_score |-> m.contextual_score,
     direct_match_score |-> m.direct_match_score,
     match_type |-> m.match_type,
     overall_score |-> m.overall_score,
     explanation |-> generate_query_match_explanation(h[m.doc].explanation).value,
     starting_keyphrase |->
         extract_highlight_keyphrase(QueryVaccination, HitChunk,
                                     h[m.doc].keyphrase).keyphrase]

\* The ranked matches grouped by document, the documents in the given
\* order; with_url are the documents whose metadata has a pdf_url.
GroupedResults(h, order, with_url) ==
    [k \in DOMAIN order |->
        LET OfDocument(m) == h[m.doc].document_id = order[k]
            ranked == SelectSeq(RankedHits(h), OfDocument)
        IN  [document_id |-> order[k],
             pdf_url |-> order[k] \in with_url,
             matches |-> [j \in DOMAIN ranked |-> MatchOf(h, ranked[j])],
             num_matches |-> Len(ranked)]]

\* An explanation call of the candidates raised to hybrid_search.
ExplanationRaised(h) ==
    \E i \in DOMAIN h : generate_query_match_explanation(h[i].explanation).raised

NoCalls == [scoring |-> 0, explanation |-> 0, keyphrase |-> 0]

NoResponse == [kind |-> "none", status |-> 0, results |-> <<>>, message |-> ""]

\* GenericSearchResponse(query, hybrid_results, message)
Response(generic, message) ==
    [kind |-> "response", status |-> 200, results |-> generic, message |-> message]

\* An exception raised to the client.
Error(status_code, detail) ==
    [kind |-> "error", status |-> status_code, results |-> <<>>, message |-> detail]

\* The calls of hybrid_search that precede the merge (utils.py, lines 121-128).
RetrievalCalls == {"embed_query", "perform_semantic_search", "perform_keyword_search"}

GIdle ==
    /\ search_request = [blank |-> FALSE]
    /\ retrieval = "none"
    /\ merged_hits = <<>>
    /\ hybrid_results = <<>>
    /\ result_index = 0
    /\ generic_results = <<>>
    /\ highlight_calls = <<>>
    /\ oracle_calls = NoCalls
    /\ generic_response = NoResponse
    /\ generic_pc = "idle"

\* search_generic has received a request.
GInit ==
    /\ search_request \in {[blank |-> TRUE], [blank |-> FALSE]}
    /\ retrieval = "none"
    /\ merged_hits = <<>>
    /\ hybrid_results = <<>>
    /\ result_index = 0
    /\ generic_results = <<>>
    /\ highlight_calls = <<>>
    /\ oracle_calls = NoCalls
    /\ generic_response = NoResponse
    /\ generic_pc = "received"

\* Lines 87-90: a blank query is refused; the outer handler raises the
\* HTTPException again (lines 168-170).
RejectEmptyQuery ==
    /\ generic_pc = "received"
    /\ search_request.blank
    /\ generic_response' = Error(400, "Query cannot be empty.")
    /\ generic_pc' = "raised"
    /\ UNCHANGED <<search_request, retrieval, merged_hits, hybrid_results, result_index,
                   generic_results, highlight_calls, oracle_calls>>
    /\ UNCHANGED outside_generic

\* A variant in which a failed retrieval yields an empty result list.
HybridSearchFailsQuietly ==
    /\ generic_pc = "received"
    /\ ~search_request.blank
    /\ \E failed \in RetrievalCalls : retrieval' = failed
    /\ generic_response' = Response(<<>>, "No matching documents found.")
    /\ generic_pc' = "returned"
    /\ UNCHANGED <<search_request, merged_hits, hybrid_results, result_index,
                   generic_results, highlight_calls, oracle_calls>>
    /\ UNCHANGED outside_generic

\* embed_query, perform_semantic_search or perform_keyword_search raises:
\* hybrid_search logs and raises again (utils.py, lines 119-128 and 336-338),
\* and so does search_generic (routers.py, lines 168-170).
HybridSearchFails ==
    /\ generic_pc = "received"
    /\ ~search_request.blank
    /\ \E failed \in RetrievalCalls :
          /\ retrieval' = failed
          /\ generic_response' = Error(500, failed)
    /\ generic_pc' = "raised"
    /\ UNCHANGED <<search_request, merged_hits, hybrid_results, result_index,
                   generic_results, highlight_calls, oracle_calls>>
    /\ UNCHANGED outside_generic

\* The retrieval succeeds and the hybrid_search that search_generic calls
\* (with country, organization and region, routers.py lines 93-99) goes on
\* as the specification describes it (sections 4.2 to 4.5): an empty merged
\* list ends the search with an empty result set; otherwise every candidate
\* is scored by rank_search_results, every match gets its explanation and
\* its keyphrase, and the matches are grouped by document. search_generic
\* returns at once when the list is empty (routers.py, lines 101-104).
HybridSearchReturns ==
    /\ generic_pc = "received"
    /\ ~search_request.blank
    /\ retrieval' = "ok"
    /\ \E n \in 0..MaxHits : \E h \in Hits(n) :
       \E order \in Orders(DocumentsOf(h)),
          with_url \in {DocumentsOf(h), DocumentsOf(h) \ {1}} :
          /\ merged_hits' = h
          /\ oracle_calls' = [scoring |-> n, explanation |-> n, keyphrase |-> n]
          /\ IF ExplanationRaised(h)
             THEN /\ hybrid_results' = <<>>
                  /\ result_index' = 0
                  /\ generic_response' = Error(500, "generate_query_match_explanation")
                  /\ generic_pc' = "raised"
             ELSE IF n = 0
             THEN /\ hybrid_results' = <<>>
                  /\ result_index' = 0
                  /\ generic_response' = Response(<<>>, "No matching documents found.")
                  /\ generic_pc' = "returned"
             ELSE /\ hybrid_results' = GroupedResults(h, order, with_url)
                  /\ result_index' = 1
                  /\ generic_response' = generic_response
                  /\ generic_pc' = "highlighting"
    /\ UNCHANGED <<search_request, generic_results, highlight_calls>>
    /\ UNCHANGED outside_generic

\* What the highlight step of a document can come to (lines 110-148): the
\* document has no pdf_url and the step is skipped; get_highlighted_pdf
\* returns the URL and it is attached to the metadata; get_highlighted_pdf,
\* or a statement around it inside the try, raises.
HighlightOutcomes(result) ==
    IF result.pdf_url THEN {"attached", "raised"} ELSE {"no_pdf_url"}

\* The entry appended to generic_results (lines 150-155).
GenericResult(result, outcome) ==
    [document_id |-> result.document_id,
     pdf_url |-> result.pdf_url,
     matches |-> result.matches,
     num_matches |-> result.num_matches,
     highlighted |-> outcome = "attached"]

\* A variant without the try around the highlight step.
HighlightDocumentUnguarded ==
    /\ generic_pc = "highlighting"
    /\ result_index <= Len(hybrid_results)
    /\ \E outcome \in HighlightOutcomes(hybrid_results[result_index]) :
          LET result == hybrid_results[result_index] IN
          /\ highlight_calls' =
                 IF outcome = "no_pdf_url" THEN highlight_calls
                 ELSE Append(highlight_calls,
                             [document_id |-> result.document_id,
                              outcome |-> outcome])
          /\ IF outcome = "raised"
             THEN /\ generic_response' = Error(500, "get_highlighted_pdf")
                  /\ generic_pc' = "raised"
                  /\ UNCHANGED <<generic_results, result_index>>
             ELSE /\ generic_results' =
                         Append(generic_results, GenericResult(result, outcome))
                  /\ result_index' = result_index + 1
                  /\ UNCHANGED <<generic_response, generic_pc>>
    /\ UNCHANGED <<search_request, retrieval, merged_hits, hybrid_results, oracle_calls>>
    /\ UNCHANGED outside_generic

\* One pass of the loop over results (lines 108-155): the highlight step,
\* whose exceptions are logged and dropped (lines 146-148), then the append.
HighlightDocument ==
    /\ generic_pc = "highlighting"
    /\ result_index <= Len(hybrid_results)
    /\ \E outcome \in HighlightOutcomes(hybrid_results[result_index]) :
          LET result == hybrid_results[result_index] IN
          /\ highlight_calls' =
                 IF outcome = "no_pdf_url" THEN highlight_calls
                 ELSE Append(highlight_calls,
                             [document_id |-> result.document_id,
                              outcome |-> outcome])
          /\ generic_results' =
                 Append(generic_results, GenericResult(result, outcome))
    /\ result_index' = result_index + 1
    /\ UNCHANGED <<search_request, retrieval, merged_hits, hybrid_results, oracle_calls,
                   generic_response, generic_pc>>
    /\ UNCHANGED outside_generic

\* After the loop (lines 157-166): the response is built, the search is
\* logged (log_search keeps its own errors) and the response is returned.
RespondAndLog ==
    /\ generic_pc = "highlighting"
    /\ result_index > Len(hybrid_results)
    /\ generic_response' = Response(generic_results, "Search completed successfully.")
    /\ generic_pc' = "returned"
    /\ UNCHANGED <<search_request, retrieval, merged_hits, hybrid_results, result_index,
                   generic_results, highlight_calls, oracle_calls>>
    /\ UNCHANGED outside_generic

GNext ==
    \/ RejectEmptyQuery
    \/ HybridSearchFails
    \/ HybridSearchReturns
    \/ HighlightDocument
    \/ RespondAndLog

(***************************************************************************)
(* Specifications                                                          *)
(***************************************************************************)

HighlightInit == HInit /\ RIdle /\ SIdle /\ KIdle /\ GIdle

HighlightSpec == HighlightInit /\ [][HNext]_vars

KeySpec == HighlightInit /\ [][KeyNext]_vars

\* Every render that was created starts, and every render that started
\* finishes or fails; the event loop resumes a caller whose awaited task has
\* ended.
RenderFairness ==
    /\ WF_vars(\E t \in Calls : TaskStart(t))
    /\ WF_vars(\E t \in Calls :
                  TaskDownloadFails(t) \/ \E opens \in BOOLEAN : TaskRenders(t, opens))
    /\ WF_vars(\E c \in Calls : ResumeAfterWait(c))
    /\ WF_vars(\E c \in Calls : ResumeOwn(c))

\* Calls arrive at any moment, or never; renders and resumptions are fair.
TerminationSpec == HighlightInit /\ [][KeyNext]_vars /\ RenderFairness

RankInit == RInit /\ HInit /\ SIdle /\ KIdle /\ GIdle

FanOutSpecInit == FanOutInit /\ HInit /\ SIdle /\ KIdle /\ GIdle

RankSpec == RankInit /\ [][RNext]_vars

\* The event loop runs every task that is ready: a task waiting for a free
\* slot of the semaphore enters it.
LoopFairness == WF_vars(\E i \in Slots : IssueRequest(i))

\* Long candidate lists; every request that was sent completes.
FanOutSpec ==
    /\ FanOutSpecInit
    /\ [][FanOutNext]_vars
    /\ LoopFairness
    /\ WF_vars(\E i \in Slots, reply \in FanOutReplies : OracleAnswers(i, reply))

\* Every request that was sent is answered, or is left without any response
\* for ever; the caller resumes when gather has every result.
HungCallSpec ==
    /\ RankInit
    /\ [][HungCallNext]_vars
    /\ LoopFairness
    /\ WF_vars(ReturnEmpty)
    /\ WF_vars(SortAndReturn)
    /\ WF_vars(\E i \in Candidates :
                  \/ \E reply \in OracleReplies : OracleAnswers(i, reply)
                  \/ OracleHangs(i))

SearchInit == SIdle /\ HInit /\ RIdle /\ KIdle /\ GIdle

SearchSpec == SearchInit /\ [][SNext]_vars

KeyphraseInit == KInit /\ HInit /\ RIdle /\ SIdle /\ GIdle

KeyphraseSpec == KeyphraseInit /\ [][KNext]_vars

GenericInit == GInit /\ HInit /\ RIdle /\ SIdle /\ KIdle

GenericSpec == GenericInit /\ [][GNext]_vars

(***************************************************************************)
(* Properties of the highlight render cache                                *)
(***************************************************************************)

\* The render tasks started so far for a cache key.
RendersOf(k) == { t \in Calls : task[t].state # "none" /\ KeyOf(t) = k }

\* The call returned from the cache-hit branch (lines 63-69).
CacheHit(c) ==
    call[c].pc = "returned" /\ call[c].own = 0 /\ call[c].waited = 0

\* C1: concurrent calls with the same key are coalesced into one render: a
\* caller that awaited an in-flight render which succeeded starts no render
\* of its own, and as long as no render for a key failed, only one render was
\* ever started for that key.
C1_ExactlyOneRender ==
    /\ \A c \in Calls :
          (call[c].waited # 0 /\ task[call[c].waited].state = "done")
              => call[c].own = 0
    /\ \A k \in CacheKeys :
          (\A t \in RendersOf(k) : task[t].state # "failed")
              => Cardinality(RendersOf(k)) <= 1

\* C2: two renders for the same cache key are never downloading and rendering
\* at the same time.
C2_NoConcurrentRendersPerKey ==
    \A t1, t2 \in Calls :
        (t1 # t2 /\ task[t1].state = "downloading" /\ task[t2].state = "downloading")
            => KeyOf(t1) # KeyOf(t2)

\* The request has no keyword occurrence on any target page.
ZeroMatch(req) ==
    IF DOMAIN req.page_keywords # {}
    THEN \A p \in DOMAIN req.page_keywords :
            p \in DOMAIN PdfDoc(req.pdf_url)
                => \A i \in DOMAIN req.page_keywords[p] :
                      req.page_keywords[p][i] \notin PdfDoc(req.pdf_url)[p]
    ELSE \A p \in DOMAIN PdfDoc(req.pdf_url) :
            \A i \in DOMAIN req.search_term :
                req.search_term[i] \notin PdfDoc(req.pdf_url)[p]

\* C10: a render that found no keyword occurrence on any target page (per-page
\* mode or fallback-term mode) and ended without error left an unannotated
\* file at the cache path; a call that arrives for that key afterwards returns
\* at once, starting no task.
C10_ZeroMatchRenderIsCached ==
    /\ [](\A t \in Calls :
            (ZeroMatch(call[t].req) /\ task[t].state = "done")
                => files[KeyOf(t)] = [exists |-> TRUE, highlights |-> {}])
    /\ [][\A c \in Calls :
            ( /\ call[c].pc = "idle" /\ call'[c].pc # "idle"
              /\ ZeroMatch(call'[c].req)
              /\ \E t \in Calls : /\ task[t].state = "done"
                                  /\ KeyOf(t) = cache_key(call'[c].req) )
                => /\ call'[c].pc = "returned"
                   /\ task' = task
                   /\ processing_pdfs' = processing_pdfs]_vars

\* C10 witness: a per-page render without any occurrence is done, and a later
\* call with its key was a cache hit.
C10_Witness ==
    \E t, c \in Calls :
        /\ t < c
        /\ task[t].state = "done"
        /\ ZeroMatch(call[t].req)
        /\ DOMAIN call[t].req.page_keywords # {}
        /\ KeyOf(c) = KeyOf(t)
        /\ CacheHit(c)

\* C11: a call that arrives while a rendered file exists at its cache path
\* returns the URL at once: it starts no download or render task, and leaves
\* the in-flight registry, the files and the temporary files as they were.
C11_CacheHitChangesNothing ==
    [][\A c \in Calls :
          ( /\ call[c].pc = "idle" /\ call'[c].pc # "idle"
            /\ files[cache_key(call'[c].req)].exists )
              => /\ call'[c].pc = "returned"
                 /\ call'[c].own = 0
                 /\ task' = task
                 /\ processing_pdfs' = processing_pdfs
                 /\ files' = files
                 /\ temp_files' = temp_files]_vars

\* C11 witness: a cache hit on an annotated file whose render is still the
\* registry entry of the key.
C11_Witness ==
    \E t, c \in Calls :
        /\ CacheHit(c)
        /\ files[KeyOf(c)].highlights # {}
        /\ processing_pdfs[KeyOf(c)] = t
        /\ task[t].state = "done"
        /\ task[c].state = "none"

\* The call awaited an in-flight render, that render failed, and the call
\* has resumed.
ResumedAfterFailure(c) ==
    /\ call[c].waited # 0
    /\ task[call[c].waited].state = "failed"
    /\ call[c].pc # "waiting"

\* C12: a caller that awaited an in-flight render which failed does not raise
\* that failure: it starts a render of its own, and it returns the URL exactly
\* when its own render succeeded and raises exactly when its own render
\* failed.
C12_WaiterRendersAfterFailure ==
    \A c \in Calls :
        ResumedAfterFailure(c)
            => /\ call[c].own = c
               /\ task[c].state # "none"
               /\ call[c].pc \in {"rendering", "returned", "raised"}
               /\ call[c].pc = "returned" => task[c].state = "done"
               /\ call[c].pc = "raised" => task[c].state = "failed"

\* C12 witness: a caller whose awaited render failed returned the URL of its
\* own render.
C12_Witness ==
    \E c \in Calls :
        /\ ResumedAfterFailure(c)
        /\ call[c].pc = "returned"
        /\ task[c].state = "done"

\* C13: a render that fails is reported to its caller as an error, no file is
\* present at its cache path when it has failed, and the next call with the
\* same key starts a new render.
C13_FailedRenderLeavesNoFile ==
    /\ [](\A c \in Calls :
            (call[c].own = c /\ task[c].state = "failed"
                 /\ call[c].pc # "rendering")
                => call[c].pc = "raised")
    /\ [][\A t \in Calls :
            (task[t].state # "failed" /\ task'[t].state = "failed")
                => ~files'[KeyOf(t)].exists]_vars
    /\ [][\A c \in Calls :
            ( /\ call[c].pc = "idle" /\ call'[c].pc # "idle"
              /\ \E t \in Calls : /\ task[t].state = "failed"
                                  /\ KeyOf(t) = cache_key(call'[c].req)
                                  /\ processing_pdfs[KeyOf(t)] = t )
                => call'[c].pc = "rendering"]_vars

\* The calls that were made.
Made == { c \in Calls : call[c].pc # "idle" }

\* The words of a search term: its pieces but the commas and the blanks.
WordsOf(search_term) == Range(search_term) \ {",", " "}

\* What the claim says a render annotates: with a map, the keywords of each
\* page named in the map, on that page; without one, each word of the
\* search term on every page where it occurs.
Annotated(req) ==
    LET doc == PdfDoc(req.pdf_url) IN
    IF DOMAIN req.page_keywords # {}
    THEN { <<p, w>> \in (DOMAIN req.page_keywords \cap DOMAIN doc) \X UNION Range(doc) :
              w \in Range(req.page_keywords[p]) \cap doc[p] }
    ELSE { <<p, w>> \in (DOMAIN doc) \X WordsOf(req.search_term) : w \in doc[p] }

\* C27: without a per-page map (or with an empty one) the cache key is that
\* of the URL and the search term, and the render annotates every page with
\* the terms of the comma-separated list; with a non-empty map the key is
\* that of the URL and the map, whatever the search term, and only pages
\* named in the map are annotated.
C27_KeyAndPagesFollowTheMap ==
    /\ \A c, d \in Made :
          LET r == call[c].req
              q == call[d].req
              SameKey == cache_key(r) = cache_key(q)
          IN  r.pdf_url = q.pdf_url =>
                 IF r.page_keywords = EmptyMap /\ q.page_keywords = EmptyMap
                 THEN SameKey <=> r.search_term = q.search_term
                 ELSE IF r.page_keywords # EmptyMap /\ q.page_keywords # EmptyMap
                 THEN SameKey <=> r.page_keywords = q.page_keywords
                 ELSE ~SameKey
    /\ \A c \in Made :
          task[c].state = "done"
              => /\ files[cache_key(call[c].req)].exists
                 /\ files[cache_key(call[c].req)].highlights = Annotated(call[c].req)
                 /\ call[c].req.page_keywords # EmptyMap
                       => \A h \in files[cache_key(call[c].req)].highlights :
                             h[1] \in DOMAIN call[c].req.page_keywords

\* C27 witness: a call for 'rate, health' with the map of page 1 rendered
\* and annotated health on page 1 alone, although rate is on both pages; a
\* later call with the same map and the search term 'health' was a cache
\* hit on the same key.
C27_Witness ==
    \E c, d \in Made :
        /\ call[c].req = Request("doc1", TermList, MapFound)
        /\ task[c].state = "done"
        /\ files[cache_key(call[c].req)].highlights = {<<1, "health">>}
        /\ call[d].req = Request("doc1", TermFound, MapFound)
        /\ call[d].pc = "returned"
        /\ call[d].own = 0
        /\ call[d].waited = 0

\* C28: a caller has the URL only when a file is at the cache path of its
\* key and some render for that key ended successfully; a URL is never
\* returned while every render for the key is still in flight, nor after all
\* of them failed.
C28_UrlOnlyForExistingFile ==
    \A c \in Calls :
        call[c].pc = "returned"
            => /\ files[KeyOf(c)].exists
               /\ \E t \in RendersOf(KeyOf(c)) : task[t].state = "done"

\* C28 witness: one call raised after the only render for its key failed
\* and no file is at that path; another call awaited a render that failed,
\* rendered itself and returned the URL of the file its render wrote.
C28_Witness ==
    \E c, d \in Calls :
        /\ call[c].pc = "raised"
        /\ RendersOf(KeyOf(c)) = {c}
        /\ ~files[KeyOf(c)].exists
        /\ call[d].pc = "returned"
        /\ call[d].own = d
        /\ call[d].waited # 0
        /\ \A t \in RendersOf(KeyOf(d)) \ {d} : task[t].state = "failed"
        /\ files[KeyOf(d)].exists

\* The call has ended: it returned the URL or raised.
Ended(c) == call[c].pc \in {"returned", "raised"}

\* C30: every call that was made eventually returns the URL or raises,
\* whatever the interleaving of the callers; a caller awaits at most one
\* render of another caller and then starts at most one render of its own,
\* and the temporary file of a render that ended is gone.
C30_EveryCallEnds ==
    /\ \A c \in Calls : (call[c].pc # "idle") ~> Ended(c)
    /\ [][\A c \in Calls :
            /\ call'[c].waited # call[c].waited => call[c].pc = "idle"
            /\ call'[c].own # call[c].own
                   => call[c].own = 0 /\ call[c].pc \in {"idle", "waiting"}
            /\ (task[c].state = "none" /\ task'[c].state # "none")
                   => call'[c].own = c
            /\ (task[c].state # "created" /\ task'[c].state = "created")
                   => task[c].state = "none"]_vars
    /\ [](\A t \in Calls : Done(t) => t \notin temp_files)

\* C30 witness: a call awaited the render of another call, then ran its own
\* render, and both calls ended after their renders ended; no temporary
\* file is left.
C30_Witness ==
    \E c, d \in Calls :
        /\ call[d].waited = c
        /\ call[d].own = d
        /\ Ended(c) /\ Ended(d)
        /\ Done(c) /\ Done(d)
        /\ task[d].state = "failed"
        /\ temp_files = {}

(***************************************************************************)
(* Properties of rank_search_results                                       *)
(***************************************************************************)

Scored == { i \in DOMAIN document_chunks : request[i] = "done" }

\* C3: for a non-empty candidate list of size N the returned matches carry the
\* ranks 1, 2, ..., N in list order, and overall_score never increases along
\* the list.
C3_DenseRanksSortedScores ==
    (rank_pc = "returned" /\ document_chunks # <<>>)
        => /\ Len(ranked_results) = Len(document_chunks)
           /\ \A i \in DOMAIN ranked_results : ranked_results[i].rank = i
           /\ \A i, j \in DOMAIN ranked_results :
                 i < j => ranked_results[i].overall_score
                              >= ranked_results[j].overall_score

\* C3 witness: two candidates were returned, the second one first.
C3_Witness ==
    /\ rank_pc = "returned"
    /\ Len(ranked_results) = 2
    /\ ranked_results[1].doc = 2
    /\ ranked_results[1].overall_score > ranked_results[2].overall_score

\* The reply of a failed or malformed scoring call, as C4 lists them.
Malformed(reply) ==
    \/ reply.kind \in {"raise", "not_json", "not_object"}
    \/ reply.contextual_score.tag # "num"
    \/ reply.direct_match_score.tag # "num"

\* C4 as stated: every candidate whose scoring call raised or whose reply is
\* malformed (no JSON, no object, or without a numeric contextual_score or
\* direct_match_score) has the scores 5 and 5, the type "balanced" and the
\* overall score 5.
C4_MalformedGetsNeutral ==
    \A i \in Scored :
        Malformed(oracle_reply[i])
            => analysis[i] = DocInfo(5, 5, "balanced", AsScore(5))

\* The score a field of a JSON object stands for: its number, 5 for a key
\* that is absent.
ScoreOrFive(field) == IF field.tag = "num" THEN field.val ELSE 5

\* C4 amended: a candidate whose scoring call raised, whose reply is no JSON or
\* no JSON object, or carries a score that is no number, has the scores 5 and
\* 5, "balanced" and the overall score 5. In a JSON object an absent score key
\* alone stands for 5, and match_type and overall_score follow from the pair
\* of scores. The candidate is returned with these values whatever the other
\* candidates' replies are.
C4_FallbackScores ==
    /\ \A i \in Scored :
         LET reply == oracle_reply[i] IN
         IF \/ reply.kind # "object"
            \/ reply.contextual_score.tag = "text"
            \/ reply.direct_match_score.tag = "text"
         THEN analysis[i] = DocInfo(5, 5, "balanced", AsScore(5))
         ELSE LET c == ScoreOrFive(reply.contextual_score)
                  d == ScoreOrFive(reply.direct_match_score)
              IN  /\ analysis[i].contextual_score = c
                  /\ analysis[i].direct_match_score = d
                  /\ analysis[i].match_type =
                         (IF d >= 7 THEN "direct"
                          ELSE IF d >= 4 THEN "balanced" ELSE "contextual")
                  /\ analysis[i].overall_score = OverallScore(c, d)
    /\ rank_pc = "returned" =>
         \A i \in DOMAIN document_chunks :
            \E j \in DOMAIN ranked_results :
               /\ ranked_results[j].doc = document_chunks[i]
               /\ ranked_results[j].contextual_score = analysis[i].contextual_score
               /\ ranked_results[j].direct_match_score = analysis[i].direct_match_score
               /\ ranked_results[j].match_type = analysis[i].match_type
               /\ ranked_results[j].overall_score = analysis[i].overall_score

\* C4 witness: one scoring call raised, another reply lacks contextual_score
\* and has direct_match_score 7; both candidates were returned.
C4_Witness ==
    /\ rank_pc = "returned"
    /\ \E i, j \in DOMAIN document_chunks :
          /\ oracle_reply[i].kind = "raise"
          /\ oracle_reply[j].kind = "object"
          /\ oracle_reply[j].contextual_score = Absent
          /\ oracle_reply[j].direct_match_score = Num(7)
          /\ analysis[j].match_type = "direct"

\* C5: for a parsed reply the stored match_type follows from the stored
\* direct_match_score alone (>= 7 direct, 4..6 balanced, <= 3 contextual),
\* whatever label the oracle proposed and whatever the contextual_score is.
C5_MatchTypeFromDirectScore ==
    \A i \in Scored :
        ( /\ oracle_reply[i].kind = "object"
          /\ oracle_reply[i].contextual_score.tag # "text"
          /\ oracle_reply[i].direct_match_score.tag # "text" )
            => LET d == analysis[i].direct_match_score IN
               /\ oracle_reply[i].direct_match_score.tag = "num"
                     => d = oracle_reply[i].direct_match_score.val
               /\ d >= 7 => analysis[i].match_type = "direct"
               /\ (d >= 4 /\ d <= 6) => analysis[i].match_type = "balanced"
               /\ d <= 3 => analysis[i].match_type = "contextual"

\* C5 witness: the oracle proposed "direct" with direct_match_score 3, and
\* "contextual" with direct_match_score 7.
C5_Witness ==
    \E i, j \in Scored :
        /\ oracle_reply[i] = Reply("object", Num(7), Num(3), "direct")
        /\ analysis[i].match_type = "contextual"
        /\ oracle_reply[j] = Reply("object", Num(0), Num(7), "contextual")
        /\ analysis[j].match_type = "direct"

\* The returned matches that carry candidate i.
MatchesOf(i) ==
    { j \in DOMAIN ranked_results : ranked_results[j].doc = document_chunks[i] }

\* C18: whatever the order in which the scoring calls complete, a completed
\* call fills the slot of its own candidate only, and the returned list has
\* exactly one match per input candidate, which carries the scores derived
\* from the oracle's reply for that candidate.
C18_ResultsBelongToTheirCandidate ==
    /\ [](\A i \in DOMAIN document_chunks :
            request[i] = "done"
                => analysis[i] = AnalyzeSingleDocument(oracle_reply[i]))
    /\ []((rank_pc = "returned" /\ document_chunks # <<>>)
            => /\ Len(ranked_results) = Len(document_chunks)
               /\ \A i \in DOMAIN document_chunks :
                     /\ Cardinality(MatchesOf(i)) = 1
                     /\ \A j \in MatchesOf(i) :
                           LET info == AnalyzeSingleDocument(oracle_reply[i]) IN
                           /\ ranked_results[j].contextual_score
                                  = info.contextual_score
                           /\ ranked_results[j].direct_match_score
                                  = info.direct_match_score
                           /\ ranked_results[j].match_type = info.match_type
                           /\ ranked_results[j].overall_score
                                  = info.overall_score)
    /\ [][\A i \in DOMAIN document_chunks :
            (request[i] = "in_flight" /\ request'[i] = "done")
                => \A j \in DOMAIN document_chunks :
                      j # i => /\ analysis'[j] = analysis[j]
                               /\ oracle_reply'[j] = oracle_reply[j]]_vars

\* C18 witness: two candidates with different replies, the second of which
\* is returned first with its own scores.
C18_Witness ==
    /\ rank_pc = "returned"
    /\ Len(document_chunks) = 2
    /\ oracle_reply[1] = Reply("object", Num(0), Num(3), "direct")
    /\ oracle_reply[2] = Reply("object", Num(7), Num(6), "contextual")
    /\ ranked_results[1].doc = document_chunks[2]
    /\ ranked_results[1].direct_match_score = 6
    /\ ranked_results[2].doc = document_chunks[1]
    /\ ranked_results[2].direct_match_score = 3

\* C19: at most 10 scoring requests are in flight at any moment, for lists
\* longer than 10 candidates too, and the request of every candidate is
\* eventually issued, given that the requests issued before it complete.
C19_AtMostTenInFlight ==
    /\ [](Cardinality(InFlight) <= 10)
    /\ (rank_pc = "scoring")
          ~> (\A i \in DOMAIN document_chunks : request[i] # "pending")

\* C19 witness: of eleven candidates ten requests are in flight and the
\* eleventh waits for the semaphore.
C19_Witness ==
    /\ Len(document_chunks) >= 11
    /\ Cardinality(InFlight) = 10
    /\ request[11] = "pending"

C21_ScoresWithinScale ==
    rank_pc = "returned"
        => \A j \in DOMAIN ranked_results :
              /\ ranked_results[j].contextual_score \in 0..10
              /\ ranked_results[j].direct_match_score \in 0..10

\* C23: of two returned matches with equal overall_score the one whose
\* candidate stands earlier in the input list has the smaller rank.
C23_TiesKeepInputOrder ==
    rank_pc = "returned"
        => \A i, j \in DOMAIN ranked_results :
              ( /\ ranked_results[i].overall_score = ranked_results[j].overall_score
                /\ ranked_results[i].doc < ranked_results[j].doc )
                  => ranked_results[i].rank < ranked_results[j].rank

\* C23 witness: both candidates got the neutral fallback, the first from a
\* call that raised, the second from a reply that is no JSON; they are
\* returned in input order.
C23_Witness ==
    /\ rank_pc = "returned"
    /\ Len(document_chunks) = 2
    /\ oracle_reply[1].kind = "raise"
    /\ oracle_reply[2].kind = "not_json"
    /\ ranked_results[1].overall_score = ranked_results[2].overall_score
    /\ ranked_results[1].doc = 1
    /\ ranked_results[2].doc = 2
    /\ ranked_results[2].rank = 2

\* The oracle answered candidate i with two scores on the scale 0..10, or
\* the candidate got the neutral fallback.
OnScale(i) ==
    LET info == AnalyzeSingleDocument(oracle_reply[i]) IN
    /\ info.contextual_score \in 0..10
    /\ info.direct_match_score \in 0..10

\* The candidate got the neutral fallback of an except branch.
GotNeutralFallback(i) ==
    \/ oracle_reply[i].kind \in {"raise", "not_json", "not_object"}
    \/ oracle_reply[i].contextual_score.tag = "text"
    \/ oracle_reply[i].direct_match_score.tag = "text"

\* C29: with scores on the scale 0..10, a returned match labelled "Strong"
\* has the match_type "direct", and a match that got the neutral fallback
\* is labelled "Moderate".
C29_StrongIsDirectNeutralIsModerate ==
    rank_pc = "returned"
        => \A i \in DOMAIN document_chunks : \A j \in MatchesOf(i) :
              /\ (OnScale(i) /\ ranked_results[j].strength = "Strong")
                    => ranked_results[j].match_type = "direct"
              /\ GotNeutralFallback(i) => ranked_results[j].strength = "Moderate"

\* C29 witness: a match scored 9 and 9 is returned "Strong" and "direct",
\* in front of a match with the neutral fallback, which is "Moderate".
C29_Witness ==
    /\ rank_pc = "returned"
    /\ Len(document_chunks) = 2
    /\ oracle_reply[1].kind = "raise"
    /\ oracle_reply[2] = Reply("object", Num(9), Num(9), "direct")
    /\ ranked_results[1].doc = 2
    /\ ranked_results[1].strength = "Strong"
    /\ ranked_results[1].match_type = "direct"
    /\ ranked_results[2].strength = "Moderate"

(***************************************************************************)
(* Properties of hybrid_search                                             *)
(***************************************************************************)

\* C6: the merged candidate list never holds two candidates with the same
\* (document identifier, page number) pair.
C6_MergedPairsUnique ==
    \A i, j \in DOMAIN combined_results :
        ( /\ combined_results[i].document_id = combined_results[j].document_id
          /\ combined_results[i].page_number = combined_results[j].page_number )
            => i = j

\* Where a returned document stands in the retrieval-merge order.
MergePosition(result) ==
    CHOOSE i \in DOMAIN combined_results : combined_results[i].id = result.metadata.id

RECURSIVE SumScores(_)
SumScores(ms) ==
    IF ms = <<>> THEN 0 ELSE Head(ms).relevance_score + SumScores(Tail(ms))

\* mean(a) > mean(b), without dividing.
MeanHigher(a, b) ==
    SumScores(a.matches) * Len(b.matches) > SumScores(b.matches) * Len(a.matches)

\* The matches of hybrid_search carry a relevance score and no type: the
\* count of matches is the only count a document result has.
SameCounts(a, b) == Len(a.matches) = Len(b.matches)

\* C9 as stated: of two returned documents with equal match counts the one
\* with the higher mean score comes first, and documents tied on every score
\* and count keep their retrieval-merge order.
C9_MultiKeyOrderKeepsMergeOrder ==
    search_outcome = "returned" =>
        \A i, j \in DOMAIN final_results :
            LET a == final_results[i]
                b == final_results[j]
            IN  (i < j /\ SameCounts(a, b))
                    => /\ ~MeanHigher(b, a)
                       /\ (~MeanHigher(a, b) /\ a.best_score = b.best_score)
                              => MergePosition(a) < MergePosition(b)

\* C9 amended: the returned documents are ordered by one key, the best
\* (highest) relevance score among the document's matches, descending;
\* documents tied on it keep the order in which their first match stands in
\* the reranker's response.
C9_OrderedByBestScore ==
    search_outcome = "returned" =>
        /\ \A i \in DOMAIN final_results :
              LET r == final_results[i] IN
              /\ \A m \in DOMAIN r.matches : r.matches[m].relevance_score <= r.best_score
              /\ \E m \in DOMAIN r.matches : r.matches[m].relevance_score = r.best_score
        /\ \A i, j \in DOMAIN final_results :
              i < j =>
                 /\ final_results[i].best_score >= final_results[j].best_score
                 /\ final_results[i].best_score = final_results[j].best_score
                       => final_results[i].matches[1].rank < final_results[j].matches[1].rank

\* C9 witness: two documents tied on their score were returned, the one the
\* merge put second in front.
C9_Witness ==
    /\ search_outcome = "returned"
    /\ Len(final_results) = 2
    /\ final_results[1].best_score = final_results[2].best_score
    /\ final_results[1].metadata = combined_results[2]
    /\ final_results[1].matches[1].rank = 1

(***************************************************************************)
(* Properties of extract_highlight_keyphrase                               *)
(***************************************************************************)

\* The keyphrases of a returned string: its comma-separated components.
Keyphrases == Split(keyphrase.keyphrase, Comma)

\* text has sub as a run of consecutive characters.
IsSubstring(sub, text) ==
    \E i \in 0..(Len(text) - Len(sub)) :
        \A k \in 1..Len(sub) : text[i + k] = sub[k]

\* C7: when the function returns through the query-word fallback, the
\* first-sentence fallback, the first-30-characters fallback or the exception
\* path, every comma-separated component of the returned string is a literal
\* substring of the raw text of the match.
C7_FallbackKeyphrasesAreSubstrings ==
    ( /\ keyphrase_pc = "returned"
      /\ keyphrase.path \in {"query_words", "first_sentence", "first_chars",
                             "exception"} )
        => \A i \in DOMAIN Keyphrases : IsSubstring(Keyphrases[i], page_text)

\* C7 witness: the query-word fallback returned a word in the capitals of the
\* raw text, where the query has small letters.
C7_Witness ==
    /\ keyphrase_pc = "returned"
    /\ keyphrase.path = "query_words"
    /\ Len(Keyphrases) = 2
    /\ Keyphrases[1] # Lower(Keyphrases[1])
    /\ ~IsSubstring(Lower(Keyphrases[1]), page_text)

\* The oracle answered the no-match sentinel (the reply is stripped first).
SentinelAnswered ==
    /\ keyphrase_pc = "returned"
    /\ keyphrase_reply.kind = "content"
    /\ Strip(keyphrase_reply.content) = NoMatchSentinel

\* C8 as stated: on the sentinel the function goes on with the query-word
\* fallback, so it returns the query words found in the raw text when there
\* are any, and it never returns the sentinel.
C8_SentinelGoesToQueryWords ==
    SentinelAnswered =>
        /\ FoundWords(query, page_text) # <<>>
              => keyphrase.keyphrase = Join(FoundWords(query, page_text), Comma)
        /\ keyphrase.keyphrase # NoMatchSentinel

\* C8 amended: on the sentinel the function returns at once the first 30
\* characters of the raw text (all of it when it is shorter), without
\* consulting the query words or the first sentence.
C8_SentinelReturnsFirstChars ==
    SentinelAnswered =>
        /\ keyphrase.path = "no_match"
        /\ keyphrase.keyphrase =
              SubSeq(page_text, 1, IF Len(page_text) < 30 THEN Len(page_text) ELSE 30)

\* C8 witness: the sentinel was answered although words of the query stand in
\* the raw text; the first characters were returned, not those words.
C8_Witness ==
    /\ SentinelAnswered
    /\ keyphrase_reply.content # NoMatchSentinel
    /\ FoundWords(query, page_text) # <<>>
    /\ keyphrase.keyphrase # Join(FoundWords(query, page_text), Comma)
    /\ Len(keyphrase.keyphrase) = 30

\* The oracle answered a list that is not the sentinel.
ListAnswered ==
    /\ keyphrase_pc = "returned"
    /\ keyphrase_reply.kind = "content"
    /\ Strip(keyphrase_reply.content) # NoMatchSentinel

\* The entries of the oracle's list, each without the whitespace around it.
Entries ==
    LET parts == Split(Strip(keyphrase_reply.content), Comma)
    IN  [i \in DOMAIN parts |-> Strip(parts[i])]

\* The entries that are not empty, stand in the raw text letter for letter
\* and have three characters or more, in the oracle's order.
Qualifying ==
    LET Qualifies(entry) == /\ entry # <<>>
                            /\ IsSubstring(entry, page_text)
                            /\ Len(entry) >= 3
    IN  SelectSeq(Entries, Qualifies)

\* C24: when the oracle's list is not the sentinel and at least one entry
\* qualifies, the returned keyphrases are exactly the qualifying entries, in
\* the oracle's order.
C24_ReturnsTheQualifyingEntries ==
    (ListAnswered /\ Qualifying # <<>>) => Keyphrases = Qualifying

\* C24 witness: of 'rate, by, , 12%, RATE, rate' on the vaccination page the
\* entries rate, 12% and rate are returned; by is too short, one entry is
\* empty and RATE is not in the text.
C24_Witness ==
    /\ ListAnswered
    /\ page_text = PageVaccination
    /\ keyphrase_reply.content = ReplyMixed
    /\ Len(Entries) = 6
    /\ Len(Keyphrases) = 3
    /\ Keyphrases[2] = <<"1", "2", "%">>

\* A word of the query longer than 3 characters occurs in the raw text,
\* whatever the case of the letters.
QueryWordOccurs ==
    \E i \in DOMAIN SplitWords(query) :
        LET word == SplitWords(query)[i] IN
        Len(word) > 3 /\ IsSubstring(Lower(word), Lower(page_text))

\* C25: the fallbacks come in a strict order. The query-word fallback
\* returns only when no entry of the oracle qualifies, the first-sentence
\* fallback only when moreover no long query word occurs in the raw text,
\* the first-30-characters fallback only when moreover the first sentence
\* yields no word; and the result is the function of the query, the raw
\* text and the oracle's response, whatever else the chunk holds.
C25_FallbackChainIsOrdered ==
    /\ ListAnswered =>
          /\ keyphrase.path
                 \in {"valid_keywords", "query_words", "first_sentence", "first_chars"}
          /\ keyphrase.path = "query_words"
                => /\ Qualifying = <<>>
                   /\ keyphrase.keyphrase = Join(FoundWords(query, page_text), Comma)
          /\ keyphrase.path = "first_sentence"
                => /\ Qualifying = <<>>
                   /\ ~QueryWordOccurs
                   /\ Keyphrases = SubSeq(FirstSentenceWords(page_text), 1, Len(Keyphrases))
          /\ keyphrase.path = "first_chars"
                => /\ Qualifying = <<>>
                   /\ ~QueryWordOccurs
                   /\ FirstSentenceWords(page_text) = <<>>
                   /\ keyphrase.keyphrase = Strip(SubSeq(page_text, 1,
                          IF Len(page_text) < 30 THEN Len(page_text) ELSE 30))
    /\ keyphrase_pc = "returned" =>
          keyphrase = extract_highlight_keyphrase(query, page_text, keyphrase_reply)

\* C25 witness: no entry of 'health, RATE' is in the vaccination page and no
\* word of 'health SURVEY data' either, although the summary of the chunk
\* has two of them: the words of the first sentence are returned.
C25_Witness ==
    /\ ListAnswered
    /\ query = QueryHealth
    /\ page_text = PageVaccination
    /\ chunk_content = ContextualizedChunk(page_text)
    /\ keyphrase_reply.content = ReplyWrongCase
    /\ keyphrase.path = "first_sentence"
    /\ Keyphrases[1] = <<"v", "a", "c", "c", "i", "n", "a", "t", "i", "o", "n">>

\* C26: on the sentinel the function returns what fallback step 3 or 4
\* returns, the words of the first sentence or the first 30 characters of
\* the raw text, and the sentinel is not validated against the raw text: it
\* is never returned, not even when the raw text contains it.
C26_SentinelSkipsValidation ==
    SentinelAnswered =>
        /\ \/ keyphrase.keyphrase =
                 SubSeq(page_text, 1, IF Len(page_text) < 30 THEN Len(page_text) ELSE 30)
           \/ /\ FirstSentenceWords(page_text) # <<>>
              /\ Keyphrases = SubSeq(FirstSentenceWords(page_text), 1, Len(Keyphrases))
        /\ keyphrase.keyphrase # NoMatchSentinel
        /\ keyphrase.path # "valid_keywords"

\* C26 witness: the sentinel was answered for a page whose text contains
\* the sentinel; the text's first characters (here all of it) were returned.
C26_Witness ==
    /\ SentinelAnswered
    /\ page_text = PageSentinel
    /\ IsSubstring(NoMatchSentinel, page_text)
    /\ keyphrase.keyphrase = PageSentinel

\* C22: the returned list has one document result per distinct document
\* identifier among the matches: no two results are of the same document,
\* and every match is in exactly one result.
C22_OneResultPerDocument ==
    search_outcome = "returned"
        => /\ \A i, j \in DOMAIN final_results :
                 i # j => final_results[i].metadata.document_id
                              # final_results[j].metadata.document_id
           /\ \A m \in DOMAIN matches :
                 Cardinality({ p \in (DOMAIN final_results) \X (DOMAIN matches) :
                                 /\ p[2] \in DOMAIN final_results[p[1]].matches
                                 /\ final_results[p[1]].matches[p[2]].rank
                                        = matches[m].rank }) = 1

\* C16: when the semantic and the keyword query both return no rows, the
\* merged list is empty and hybrid_search returns an empty result set, not
\* an error, without any call of the scoring service.
C16_EmptyMergeShortCircuits ==
    (/\ search_outcome # "none"
     /\ semantic_results = <<>>
     /\ keyword_results = <<>>
     /\ (search_outcome = "returned" \/ rerank = "raised"))
        => /\ combined_results = <<>>
           /\ search_outcome = "returned"
           /\ final_results = <<>>
           /\ rerank = "not_called"

(***************************************************************************)
(* Properties of search_generic                                            *)
(***************************************************************************)

\* The matches of the results hybrid_search returned, as pairs <<k, j>>.
ReturnedMatches ==
    { p \in (DOMAIN hybrid_results) \X (1..(MaxHits + 1)) :
        p[2] \in DOMAIN hybrid_results[p[1]].matches }

DocumentsWithUrl(documents) ==
    LET HasUrl(d) == d.pdf_url
        with_url == SelectSeq(documents, HasUrl)
    IN  [k \in DOMAIN with_url |-> with_url[k].document_id]

C17_RetrievalFailurePropagates ==
    retrieval \in RetrievalCalls
        => /\ generic_pc = "raised"
           /\ generic_response = Error(500, retrieval)
           /\ hybrid_results = <<>>
           /\ generic_results = <<>>
           /\ oracle_calls = NoCalls
           /\ highlight_calls = <<>>

\* C17 witness: the keyword query raised and the request ended with its error.
C17_Witness ==
    /\ retrieval = "perform_keyword_search"
    /\ generic_pc = "raised"
    /\ generic_response.kind = "error"

====
